---- MODULE Spec2Model ----
(***************************************************************************)
(* Model of the phase computation and unwrapping engine                    *)
(* (src/core/phase_processor.py, class PhaseProcessor).                    *)
(*                                                                         *)
(* A 2D numpy array is a sequence of rows, each row a sequence of numbers: *)
(* a[r][c] here is a[r-1, c-1] in the source.  Heights are integers in a   *)
(* unit chosen so that 0.5 * lambda_angstrom is an integer; threshold is a *)
(* rational <<num, den>>, so that limit = 0.5 * lam * threshold is the     *)
(* rational <<lam * num, 2 * den>> and the comparisons with it are exact.  *)
(* Floating-point rounding is not modelled: arithmetic is exact.           *)
(* An array of n > 0 rows and no column is n empty rows; an array with no  *)
(* row is <<>>, whatever its column count.                                 *)
(***************************************************************************)
EXTENDS Integers, Sequences, FiniteSets, TLC

VARIABLES
    lambda_angstrom,  \* PhaseProcessor.lambda_angstrom
    img,              \* the caller's height map, handed to the unwrapping stages
    phase_array,      \* the caller's map of rationals, handed to the trend removal
    frame_list,       \* the caller's list of frames, handed to compute_phase
    call,             \* the call made: its name and its arguments
    ret,              \* the array the call returned
    ret_flag,         \* the boolean phase_jump returned
    exc,              \* the exception the call raised, "none" if it returned
    tiles_mask,       \* tile_unwrap's local tiles_mask
    writes,           \* tile_unwrap: how many times each pixel of b was assigned
    todo,             \* tile_unwrap: the tiles (Y_idx, X_idx) its loop has yet to process
    pc,               \* where the running loop or thread stands
    arduino,          \* the fields of the ArduinoController
    wire,             \* what was written to the open port (self.ser / self.board), in order
    recorder          \* the fields of the DPIRecorder, its queue and the files written

vars == <<lambda_angstrom, img, phase_array, frame_list, call, ret, ret_flag, exc,
          tiles_mask, writes, todo, pc, arduino, wire, recorder>>

----------------------------------------------------------------------------
(***************************************************************************)
(* The objects outside the engine, as their constructors leave them        *)
(***************************************************************************)

\* no loop is being stepped through and no thread runs
NoLoop == [at |-> "idle"]

\* ArduinoController.__init__; mode is self._mode, esp what
\* self._is_esp_board(self.ser.port) answers for the open port
NewArduinoController ==
    [is_connected |-> FALSE, mode |-> "None", current_step |-> 0, esp |-> FALSE]

\* DPIRecorder.__init__; queue is self._queue, writer the state of
\* self._writer_thread, files the files written, accepted the maps that
\* save_phase_data has put on the queue, values the image_count written to
\* values.txt (-1: no values.txt)
NewDPIRecorder ==
    [is_recording |-> FALSE, output_directory |-> 0, image_count |-> 0,
     queue |-> <<>>, stop_event |-> FALSE, experiment_finished |-> FALSE,
     writer |-> "None", files |-> <<>>, accepted |-> <<>>, values |-> -1]

----------------------------------------------------------------------------
(* Bounds of the model *)

MaxCells == 4      \* arbitrary maps have at most this many pixels
MaxHalfLam == 2    \* lambda_angstrom is 2, 4, .. 2 * MaxHalfLam
MaxIter == 2       \* iterations argument is drawn from 0..MaxIter
MaxRampLen == 4    \* length of the 1-row ramps
MaxSlope == 2      \* ramp steps are drawn from -MaxSlope..MaxSlope
MaxDim == 4        \* the maps handed to tile_unwrap have at most MaxDim rows and columns
MaxDelimeter == 3  \* delimeter (the tile size) is drawn from 2..MaxDelimeter
ScenarioTile == 2  \* tile size of the 2 x 2 tile grid scenario
MaxTrendDim == 4   \* the maps handed to the trend removal have 2..MaxTrendDim rows and columns
MaxCoeff == 2      \* plane coefficients a, b, c are drawn from -MaxCoeff..MaxCoeff
MaxFrames == 5     \* compute_phase is handed 0..MaxFrames frames
MaxSteps == 6      \* its steps argument is drawn from 0..MaxSteps

----------------------------------------------------------------------------
(* numpy helpers *)

\* v is evaluated once and F applied to its value (a local variable of the source:
\* without it the expression v would be evaluated again at every use)
Bind(v, F(_)) == CHOOSE y \in {F(x) : x \in {v}} : TRUE

Rows(a) == Len(a)
Cols(a) == IF Len(a) = 0 THEN 0 ELSE Len(a[1])

Abs(x) == IF x < 0 THEN -x ELSE x
Min(x, y) == IF x < y THEN x ELSE y
Max(x, y) == IF x > y THEN x ELSE y

\* np.diff(a, axis): differences of neighbours along the axis
\* (axis 1: along a row, axis 0: down a column)
np_diff(a, axis) ==
    IF axis = 1
    THEN [r \in 1..Rows(a) |-> [c \in 1..(Cols(a) - 1) |-> a[r][c + 1] - a[r][c]]]
    ELSE [r \in 1..(Rows(a) - 1) |-> [c \in 1..Cols(a) |-> a[r + 1][c] - a[r][c]]]

RECURSIVE SumRow(_, _, _)
SumRow(a, r, c) == IF c = 0 THEN 0 ELSE SumRow(a, r, c - 1) + a[r][c]

RECURSIVE SumCol(_, _, _)
SumCol(a, r, c) == IF r = 0 THEN 0 ELSE SumCol(a, r - 1, c) + a[r][c]

\* np.cumsum(a, axis): running sums along the axis
np_cumsum(a, axis) ==
    IF axis = 1
    THEN [r \in 1..Rows(a) |-> [c \in 1..Cols(a) |-> SumRow(a, r, c)]]
    ELSE [r \in 1..Rows(a) |-> [c \in 1..Cols(a) |-> SumCol(a, r, c)]]

\* h[:, 1:] += t (axis 1) and h[1:, :] += t (axis 0)
add_tail(h, t, axis) ==
    IF axis = 1
    THEN [r \in 1..Rows(h) |->
            [c \in 1..Cols(h) |-> IF c = 1 THEN h[r][c] ELSE h[r][c] + t[r][c - 1]]]
    ELSE [r \in 1..Rows(h) |->
            [c \in 1..Cols(h) |-> IF r = 1 THEN h[r][c] ELSE h[r][c] + t[r - 1][c]]]

----------------------------------------------------------------------------
(* compute_phase.  A frame is a map of integer pixels.  numerator and         *)
(* denominator are numbers a + b * sqrt(3), a and b integers, written         *)
(* <<a, b>>.  An angle np.arctan2(y, x) is written as the direction <<P, Q>>  *)
(* of the ray (P, Q * sqrt(3)) through (y, x), P and Q coprime integers: two  *)
(* angles are equal exactly when their directions are, and the angle 0 is     *)
(* <<0, 1>>.                                                                  *)

\* I = np.array(images, dtype=np.float32): frames of different shapes raise
np_array(images) ==
    IF \E i, j \in 1..Len(images) :
          Rows(images[i]) # Rows(images[j]) \/ Cols(images[i]) # Cols(images[j])
    THEN [exc |-> "ValueError", I |-> <<>>]
    ELSE [exc |-> "none", I |-> images]

numerator_mut_coefficient(I, steps, r, c) ==
    IF steps = 3 THEN <<2 * I[1][r][c] - 3 * I[2][r][c] + 2 * I[3][r][c], 0>>
    ELSE IF steps = 4
    THEN <<5 * (I[1][r][c] - I[2][r][c] - I[3][r][c] + 2 * I[4][r][c]), 0>>
    ELSE <<0, 2 * I[1][r][c] - 3 * I[2][r][c] - 4 * I[3][r][c] + 4 * I[5][r][c]>>

\* numerator at pixel (r, c) for steps in {3, 4, 5}; I[k] here is I[k - 1] in the source
numerator_of(I, steps, r, c) ==
    IF steps = 3 THEN <<2 * I[1][r][c] - 3 * I[2][r][c] + I[3][r][c], 0>>
    ELSE IF steps = 4
    THEN <<5 * (I[1][r][c] - I[2][r][c] - I[3][r][c] + I[4][r][c]), 0>>
    ELSE <<0, 2 * I[1][r][c] - 3 * I[2][r][c] - 4 * I[3][r][c] + 5 * I[5][r][c]>>

\* denominator at pixel (r, c) for steps in {3, 4, 5}
denominator_of(I, steps, r, c) ==
    IF steps = 3 THEN <<0, I[2][r][c] - I[3][r][c]>>
    ELSE IF steps = 4
    THEN <<0, 2 * I[1][r][c] + I[2][r][c] - I[3][r][c] - 2 * I[4][r][c]>>
    ELSE <<8 * I[1][r][c] + 3 * I[2][r][c] - 4 * I[3][r][c] - 6 * I[4][r][c] - I[5][r][c], 0>>

RECURSIVE GCD(_, _)
GCD(a, b) == IF b = 0 THEN a ELSE GCD(b, a % b)

\* np.arctan2(y, x) for y an integer and x a multiple of sqrt(3), or y a multiple
\* of sqrt(3) and x an integer: the ray (n * sqrt(3), d) is the ray (3 * n, d * sqrt(3)).
\* np.arctan2(0, 0) is 0.
np_arctan2(y, x) ==
    Bind(IF y[2] = 0 /\ x[1] = 0 THEN <<y[1], x[2]>> ELSE <<3 * y[2], x[1]>>, LAMBDA ray :
    Bind(GCD(Abs(ray[1]), Abs(ray[2])), LAMBDA g :
        IF g = 0 THEN <<0, 1>> ELSE <<ray[1] \div g, ray[2] \div g>>))

\* the formulas read I[steps - 1] at most
wrapped_phase_of(I, steps) ==
    [r \in 1..Rows(I[1]) |-> [c \in 1..Cols(I[1]) |->
        np_arctan2(numerator_of(I, steps, r, c), denominator_of(I, steps, r, c))]]

compute_phase_mut_default(images, steps) ==
    Bind(np_array(images), LAMBDA arr :
        IF arr.exc # "none" THEN [exc |-> arr.exc, wrapped_phase |-> <<>>]
        ELSE IF Len(arr.I) < (IF steps \in {3, 4, 5} THEN steps ELSE 4)
        THEN [exc |-> "IndexError", wrapped_phase |-> <<>>]
        ELSE [exc |-> "none",
              wrapped_phase |-> wrapped_phase_of(arr.I, IF steps \in {3, 4, 5} THEN steps ELSE 4)])

\* compute_phase: the wrapped phase, or the exception raised (ValueError for a
\* steps outside {3, 4, 5}, IndexError for a frame the formula reads and the
\* list does not hold)
compute_phase(images, steps) ==
    Bind(np_array(images), LAMBDA arr :
        IF arr.exc # "none" THEN [exc |-> arr.exc, wrapped_phase |-> <<>>]
        ELSE IF steps \notin {3, 4, 5} THEN [exc |-> "ValueError", wrapped_phase |-> <<>>]
        ELSE IF Len(arr.I) < steps THEN [exc |-> "IndexError", wrapped_phase |-> <<>>]
        ELSE [exc |-> "none", wrapped_phase |-> wrapped_phase_of(arr.I, steps)])

----------------------------------------------------------------------------
(* limit = 0.5 * lam * threshold, correction_step = 0.5 * lam *)

limit_of(lam, threshold) == <<lam * threshold[1], 2 * threshold[2]>>

correction_step_mut_quarter(lam) == lam \div 4

correction_step_of(lam) == lam \div 2

gt_limit_mut_ge(d, limit) == d * limit[2] >= limit[1]

\* d > limit and d < -limit, for an integer d and the rational limit
gt_limit(d, limit) == d * limit[2] > limit[1]
lt_neg_limit(d, limit) == d * limit[2] < -limit[1]

\* corrections = np.zeros_like(diff)
\* corrections[diff > limit] = -correction_step
\* corrections[diff < -limit] = correction_step
corrections_mut_sign(diff, limit, correction_step) ==
    [r \in 1..Len(diff) |-> [c \in 1..Len(diff[r]) |->
        IF lt_neg_limit(diff[r][c], limit) THEN -correction_step
        ELSE IF gt_limit(diff[r][c], limit) THEN correction_step
        ELSE 0]]

corrections_of(diff, limit, correction_step) ==
    [r \in 1..Len(diff) |-> [c \in 1..Len(diff[r]) |->
        IF lt_neg_limit(diff[r][c], limit) THEN correction_step
        ELSE IF gt_limit(diff[r][c], limit) THEN -correction_step
        ELSE 0]]

\* one axis of one iteration of threshold_unwrap
unwrap_axis(h, limit, correction_step, axis) ==
    Bind(h, LAMBDA hv :
    Bind(np_diff(hv, axis), LAMBDA diff :
    Bind(corrections_of(diff, limit, correction_step), LAMBDA corrections :
    Bind(np_cumsum(corrections, axis), LAMBDA total_corrections :
        add_tail(hv, total_corrections, axis)))))

unwrap_iteration_mut_from_input(h, limit, correction_step, horizontal, vertical) ==
    Bind(IF horizontal THEN unwrap_axis(h, limit, correction_step, 1) ELSE h, LAMBDA h1 :
        IF vertical
        THEN add_tail(h1, np_cumsum(corrections_of(np_diff(h, 0), limit, correction_step), 0), 0)
        ELSE h1)

\* the body of the for loop of threshold_unwrap
unwrap_iteration(h, limit, correction_step, horizontal, vertical) ==
    Bind(IF horizontal THEN unwrap_axis(h, limit, correction_step, 1) ELSE h, LAMBDA h1 :
        IF vertical THEN unwrap_axis(h1, limit, correction_step, 0) ELSE h1)

RECURSIVE unwrap_loop(_, _, _, _, _, _)
unwrap_loop(h, n, limit, correction_step, horizontal, vertical) ==
    IF n = 0 THEN h
    ELSE unwrap_loop(unwrap_iteration(h, limit, correction_step, horizontal, vertical),
                     n - 1, limit, correction_step, horizontal, vertical)

threshold_unwrap(lam, height_map, threshold, iterations, horizontal, vertical) ==
    unwrap_loop(height_map, Max(1, iterations), limit_of(lam, threshold),
                correction_step_of(lam), horizontal, vertical)

\* the caller's height_map once threshold_unwrap has returned h: h is a copy
\* (h = height_map.copy()), so the writes to h do not reach height_map
height_map_after_unwrap_mut_alias(height_map, h) == h

height_map_after_unwrap(height_map, h) == height_map

\* np.any(np.abs(d) > limit)
any_abs_gt(d, limit) ==
    \E r \in 1..Len(d) : \E c \in 1..Len(d[r]) : gt_limit(Abs(d[r][c]), limit)

phase_jump_mut_x_only(lam, tile, threshold) ==
    Bind(tile, LAMBDA t :
    Bind(np_diff(t, 1), LAMBDA diff_x : any_abs_gt(diff_x, limit_of(lam, threshold))))

phase_jump(lam, tile, threshold) ==
    Bind(tile, LAMBDA t :
    Bind(np_diff(t, 1), LAMBDA diff_x :
    Bind(np_diff(t, 0), LAMBDA diff_y :
        any_abs_gt(diff_x, limit_of(lam, threshold))
            \/ any_abs_gt(diff_y, limit_of(lam, threshold)))))

\* the caller's tile once phase_jump has returned: tile is only read
tile_after_phase_jump(tile) == tile

----------------------------------------------------------------------------
(* special_unwrap *)

np_transpose(a) == [c \in 1..Cols(a) |-> [r \in 1..Rows(a) |-> a[r][c]]]

\* np.repeat(a, n, axis): every row (axis 0) or every column (axis 1) n times
np_repeat(a, n, axis) ==
    IF axis = 0
    THEN [i \in 1..(Rows(a) * n) |-> a[((i - 1) \div n) + 1]]
    ELSE [i \in 1..Rows(a) |-> [j \in 1..(Cols(a) * n) |-> a[i][((j - 1) \div n) + 1]]]

\* the pixel mask (rows x cols) built from the tile mask, which is indexed
\* [x_block][y_block]
mask_full_of(rows, cols, mask, delimeter) ==
    Bind(np_repeat(mask, delimeter, 0), LAMBDA mask_expanded_x :
    Bind(np_repeat(mask_expanded_x, delimeter, 1), LAMBDA mask_expanded :
    Bind(Min(cols, Rows(mask_expanded)), LAMBDA w_end :
    Bind(Min(rows, Cols(mask_expanded)), LAMBDA h_end :
    Bind([x \in 1..cols |-> [y \in 1..rows |->
            IF x <= w_end /\ y <= h_end THEN mask_expanded[x][y] ELSE FALSE]],
         LAMBDA full : IF cols = 0 THEN [r \in 1..rows |-> <<>>] ELSE np_transpose(full))))))

\* valid_mask = ~mask_full[:, 1:] (axis 1) and ~mask_full[1:, :] (axis 0)
valid_mask_mut_not_negated(mask_full, axis) ==
    IF axis = 1
    THEN [r \in 1..Rows(mask_full) |-> [c \in 1..(Cols(mask_full) - 1) |-> mask_full[r][c + 1]]]
    ELSE [r \in 1..(Rows(mask_full) - 1) |-> [c \in 1..Cols(mask_full) |-> mask_full[r + 1][c]]]

valid_mask_of(mask_full, axis) ==
    IF axis = 1
    THEN [r \in 1..Rows(mask_full) |-> [c \in 1..(Cols(mask_full) - 1) |-> ~mask_full[r][c + 1]]]
    ELSE [r \in 1..(Rows(mask_full) - 1) |-> [c \in 1..Cols(mask_full) |-> ~mask_full[r + 1][c]]]

masked_corrections_mut_unmasked(diff, valid_mask, limit, correction_step) ==
    corrections_of(diff, limit, correction_step)

\* corrections[jump_up & valid_mask] = -correction_step
\* corrections[jump_down & valid_mask] = correction_step
masked_corrections(diff, valid_mask, limit, correction_step) ==
    [r \in 1..Len(diff) |-> [c \in 1..Len(diff[r]) |->
        IF lt_neg_limit(diff[r][c], limit) /\ valid_mask[r][c] THEN correction_step
        ELSE IF gt_limit(diff[r][c], limit) /\ valid_mask[r][c] THEN -correction_step
        ELSE 0]]

special_axis(p, mask_full, limit, correction_step, axis) ==
    Bind(p, LAMBDA pv :
    Bind(np_diff(pv, axis), LAMBDA diff :
    Bind(valid_mask_of(mask_full, axis), LAMBDA valid_mask :
    Bind(masked_corrections(diff, valid_mask, limit, correction_step), LAMBDA corrections :
    Bind(np_cumsum(corrections, axis), LAMBDA total :
        add_tail(pv, total, axis))))))

\* one pass of the for loop of special_unwrap: horizontal, then vertical
special_pass(p, mask_full, limit, correction_step) ==
    special_axis(special_axis(p, mask_full, limit, correction_step, 1),
                 mask_full, limit, correction_step, 0)

RECURSIVE special_loop(_, _, _, _, _)
special_loop(p, n, mask_full, limit, correction_step) ==
    IF n = 0 THEN p
    ELSE special_loop(special_pass(p, mask_full, limit, correction_step),
                      n - 1, mask_full, limit, correction_step)

\* one pass fewer than the loop makes
SpecialPasses_mut_two == 3 - 1

\* for _ in range(3)
SpecialPasses == 3

special_unwrap(lam, p, mask, delimeter, threshold) ==
    Bind(p, LAMBDA pv :
    Bind(mask, LAMBDA mv :
    Bind(mask_full_of(Rows(pv), Cols(pv), mv, delimeter), LAMBDA mask_full :
        special_loop(pv, SpecialPasses, mask_full,
                     limit_of(lam, threshold), correction_step_of(lam)))))

----------------------------------------------------------------------------
(* tile_unwrap *)

np_zeros(rows, cols) == [r \in 1..rows |-> [c \in 1..cols |-> 0]]

\* a[Y:Y_end, X:X_end] (0-based, end exclusive)
slice(a, Y, Y_end, X, X_end) ==
    [r \in 1..(Y_end - Y) |-> [c \in 1..(X_end - X) |-> a[Y + r][X + c]]]

\* b[Y:Y_end, X:X_end] = t
assign_slice(b, Y, Y_end, X, X_end, t) ==
    [r \in 1..Rows(b) |-> [c \in 1..Cols(b) |->
        IF r > Y /\ r <= Y_end /\ c > X /\ c <= X_end THEN t[r - Y][c - X] ELSE b[r][c]]]

\* the writes counted for b[Y:Y_end, X:X_end] = ...
count_slice(w, Y, Y_end, X, X_end) ==
    [r \in 1..Rows(w) |-> [c \in 1..Cols(w) |->
        IF r > Y /\ r <= Y_end /\ c > X /\ c <= X_end THEN w[r][c] + 1 ELSE w[r][c]]]

\* nx = max(1, w // delimeter), ny = max(1, h // delimeter)
grid_mut_ceil(size, delimeter) == (size + delimeter - 1) \div delimeter

grid(size, delimeter) == Max(1, size \div delimeter)

tile_step_mut_raw(lam, image, st, Y_idx, X_idx, delimeter, threshold, horizontal, vertical) ==
    Bind(Y_idx * delimeter, LAMBDA Y :
    Bind(X_idx * delimeter, LAMBDA X :
    Bind(Min(Y + delimeter, Rows(image)), LAMBDA Y_end :
    Bind(Min(X + delimeter, Cols(image)), LAMBDA X_end :
    Bind(slice(image, Y, Y_end, X, X_end), LAMBDA tile :
    Bind(threshold_unwrap(lam, tile, threshold, 1, horizontal, vertical), LAMBDA unwrapped_tile :
    Bind(phase_jump(lam, tile, threshold), LAMBDA has_jump :
        [b |-> assign_slice(st.b, Y, Y_end, X, X_end, unwrapped_tile),
         tiles_mask |-> [st.tiles_mask EXCEPT ![X_idx + 1][Y_idx + 1] = has_jump],
         writes |-> count_slice(st.writes, Y, Y_end, X, X_end)])))))))

tile_step_mut_shared_flag(lam, image, st, Y_idx, X_idx, delimeter, threshold, horizontal, vertical) ==
    Bind(Y_idx * delimeter, LAMBDA Y :
    Bind(X_idx * delimeter, LAMBDA X :
    Bind(Min(Y + delimeter, Rows(image)), LAMBDA Y_end :
    Bind(Min(X + delimeter, Cols(image)), LAMBDA X_end :
    Bind(slice(image, Y, Y_end, X, X_end), LAMBDA tile :
    Bind(threshold_unwrap(lam, tile, threshold, 1, horizontal, vertical), LAMBDA unwrapped_tile :
    Bind(phase_jump(lam, unwrapped_tile, threshold)
            \/ \E x \in 1..Rows(st.tiles_mask) : \E y \in 1..Cols(st.tiles_mask) :
                  st.tiles_mask[x][y], LAMBDA has_jump :
        [b |-> assign_slice(st.b, Y, Y_end, X, X_end, unwrapped_tile),
         tiles_mask |-> [st.tiles_mask EXCEPT ![X_idx + 1][Y_idx + 1] = has_jump],
         writes |-> count_slice(st.writes, Y, Y_end, X, X_end)])))))))

\* the body of the loops over Y_idx and X_idx, on the state st = [b, tiles_mask, writes]
tile_step(lam, image, st, Y_idx, X_idx, delimeter, threshold, horizontal, vertical) ==
    Bind(Y_idx * delimeter, LAMBDA Y :
    Bind(X_idx * delimeter, LAMBDA X :
    Bind(Min(Y + delimeter, Rows(image)), LAMBDA Y_end :
    Bind(Min(X + delimeter, Cols(image)), LAMBDA X_end :
    Bind(slice(image, Y, Y_end, X, X_end), LAMBDA tile :
    Bind(threshold_unwrap(lam, tile, threshold, 1, horizontal, vertical), LAMBDA unwrapped_tile :
    Bind(phase_jump(lam, unwrapped_tile, threshold), LAMBDA has_jump :
        [b |-> assign_slice(st.b, Y, Y_end, X, X_end, unwrapped_tile),
         tiles_mask |-> [st.tiles_mask EXCEPT ![X_idx + 1][Y_idx + 1] = has_jump],
         writes |-> count_slice(st.writes, Y, Y_end, X, X_end)])))))))

\* for Y_idx in range(ny): for X_idx in range(nx): the k-th step is tile
\* (Y_idx, X_idx) = (k // nx, k % nx)
RECURSIVE tile_loop(_, _, _, _, _, _, _, _, _, _)
tile_loop(lam, image, st, k, nx, ny, delimeter, threshold, horizontal, vertical) ==
    IF k = nx * ny THEN st
    ELSE Bind(tile_step(lam, image, st, k \div nx, k % nx, delimeter, threshold,
                        horizontal, vertical),
              LAMBDA st1 : tile_loop(lam, image, st1, k + 1, nx, ny, delimeter, threshold,
                                     horizontal, vertical))

\* tile_unwrap up to the special pass: b, tiles_mask and the writes made
tile_pass(lam, height_map, delimeter, threshold, horizontal, vertical) ==
    Bind(height_map, LAMBDA image :
    Bind(Rows(image), LAMBDA h :
    Bind(Cols(image), LAMBDA w :
    Bind(grid(w, delimeter), LAMBDA nx :
    Bind(grid(h, delimeter), LAMBDA ny :
    Bind([b |-> np_zeros(h, w),
          tiles_mask |-> [x \in 1..nx |-> [y \in 1..ny |-> FALSE]],
          writes |-> np_zeros(h, w)], LAMBDA st0 :
        tile_loop(lam, image, st0, 0, nx, ny, delimeter, threshold,
                  horizontal, vertical)))))))

\* the array tile_unwrap returns, from the state of its loop
tile_result(lam, st, delimeter, threshold, use_special) ==
    IF use_special
    THEN special_unwrap(lam, st.b, st.tiles_mask, delimeter, threshold)
    ELSE st.b

\* the caller's height_map once tile_unwrap has returned b: b is a fresh array
\* (np.zeros_like(img)), every tile is copied by threshold_unwrap before it is
\* written, and special_unwrap works in place on b
height_map_after_tile_unwrap(height_map, b) == height_map

tile_unwrap(lam, height_map, delimeter, threshold, horizontal, vertical, use_special) ==
    tile_result(lam, tile_pass(lam, height_map, delimeter, threshold, horizontal, vertical),
                delimeter, threshold, use_special)

----------------------------------------------------------------------------
(* remove_linear_trend.  The maps handed to the trend removal hold rationals  *)
(* <<numerator, denominator>>, denominator > 0, in lowest terms; np.polyfit   *)
(* is the exact least-squares solution (its floating-point error is not       *)
(* modelled).                                                                 *)

RNorm(q) ==
    Bind(IF q[2] < 0 THEN <<-q[1], -q[2]>> ELSE q, LAMBDA p :
    Bind(GCD(Abs(p[1]), p[2]), LAMBDA g : <<p[1] \div g, p[2] \div g>>))

RInt(n) == <<n, 1>>

\* the not-a-number of floating point, which every operation propagates
NaN == <<0, 0>>
IsNaN(q) == q[2] = 0

RAdd(p, q) == IF IsNaN(p) \/ IsNaN(q) THEN NaN ELSE RNorm(<<p[1] * q[2] + q[1] * p[2], p[2] * q[2]>>)
RSub(p, q) == IF IsNaN(p) \/ IsNaN(q) THEN NaN ELSE RNorm(<<p[1] * q[2] - q[1] * p[2], p[2] * q[2]>>)
RMul(p, q) == IF IsNaN(p) \/ IsNaN(q) THEN NaN ELSE RNorm(<<p[1] * q[1], p[2] * q[2]>>)
RDiv(p, q) == IF IsNaN(p) \/ IsNaN(q) THEN NaN ELSE RNorm(<<p[1] * q[2], p[2] * q[1]>>)

RECURSIVE RSum(_, _)
RSum(f, n) == IF n = 0 THEN RInt(0) ELSE RAdd(RSum(f, n - 1), f[n])

RECURSIVE ISum(_, _)
ISum(f, n) == IF n = 0 THEN 0 ELSE ISum(f, n - 1) + f[n]

\* np.arange(n)
np_arange(n) == [i \in 1..n |-> i - 1]

\* ndarray.size
np_size(a) == Rows(a) * Cols(a)

\* np.polyfit(x, y, 1) for x = np.arange(n), n >= 2: <<slope, intercept>> of the
\* least-squares line
polyfit1(x, y) ==
    Bind(Len(x), LAMBDA n :
    Bind(RSum([i \in 1..n |-> RInt(x[i])], n), LAMBDA Sx :
    Bind(RSum([i \in 1..n |-> RInt(x[i] * x[i])], n), LAMBDA Sxx :
    Bind(RSum(y, n), LAMBDA Sy :
    Bind(RSum([i \in 1..n |-> RMul(RInt(x[i]), y[i])], n), LAMBDA Sxy :
    Bind(RSub(RMul(RInt(n), Sxx), RMul(Sx, Sx)), LAMBDA det :
        << RDiv(RSub(RMul(RInt(n), Sxy), RMul(Sx, Sy)), det),
           RDiv(RSub(RMul(Sy, Sxx), RMul(Sx, Sxy)), det) >>))))))

\* the least-squares parabola through n >= 3 points: the solution of the normal
\* equations [[S4, S3, S2], [S3, S2, S1], [S2, S1, S0]] * <<a, b, c>> = <<T2, T1, T0>>,
\* Sk the sum of x^k and Tk the sum of x^k * y, by the adjugate of the matrix
lstsq2(x, y) ==
    Bind(Len(x), LAMBDA n :
    Bind(ISum(x, n), LAMBDA S1 :
    Bind(ISum([i \in 1..n |-> x[i] * x[i]], n), LAMBDA S2 :
    Bind(ISum([i \in 1..n |-> x[i] * x[i] * x[i]], n), LAMBDA S3 :
    Bind(ISum([i \in 1..n |-> x[i] * x[i] * x[i] * x[i]], n), LAMBDA S4 :
    Bind(RSum(y, n), LAMBDA T0 :
    Bind(RSum([i \in 1..n |-> RMul(RInt(x[i]), y[i])], n), LAMBDA T1 :
    Bind(RSum([i \in 1..n |-> RMul(RInt(x[i] * x[i]), y[i])], n), LAMBDA T2 :
    Bind(<< <<S2 * n - S1 * S1, S1 * S2 - S3 * n, S3 * S1 - S2 * S2>>,
            <<S1 * S2 - S3 * n, S4 * n - S2 * S2, S2 * S3 - S4 * S1>>,
            <<S3 * S1 - S2 * S2, S2 * S3 - S4 * S1, S4 * S2 - S3 * S3>> >>, LAMBDA adj :
    Bind(RInt(S4 * adj[1][1] + S3 * adj[1][2] + S2 * adj[1][3]), LAMBDA det :
        [k \in 1..3 |->
            RDiv(RAdd(RAdd(RMul(RInt(adj[k][1]), T2), RMul(RInt(adj[k][2]), T1)),
                      RMul(RInt(adj[k][3]), T0)), det)]))))))))))

\* np.polyfit(x, y, 2) for x = np.arange(n), n >= 2: <<a, b, c>> of a*x^2 + b*x + c.
\* With n = 2 the system has rank 2 (a RankWarning, no exception) and lstsq
\* returns the solution of least norm of the system with columns scaled to unit
\* length, which is a = b = (y[1] - y[0]) / 2, c = y[0].
polyfit2(x, y) ==
    IF Len(x) = 2
    THEN Bind(RDiv(RSub(y[2], y[1]), RInt(2)), LAMBDA half : <<half, half, y[1]>>)
    ELSE lstsq2(x, y)

\* np.polyfit(x, y, deg) for x = np.arange(n): the coefficients, or the exception
\* raised.  With n = 1 the column of x (and of x^2) has length 0, the scaling
\* lhs /= scale divides 0 by 0 and lstsq is handed NaN entries, as it is when y
\* holds a NaN: LAPACK then either reports that the SVD did not converge
\* (LinAlgError, lapack_raises) or returns NaN coefficients.
np_polyfit(x, y, deg, lapack_raises) ==
    IF Len(x) = 0 THEN [exc |-> "TypeError", coeffs |-> <<>>]
    ELSE IF Len(x) = 1 \/ \E i \in 1..Len(y) : IsNaN(y[i])
    THEN IF lapack_raises
         THEN [exc |-> "LinAlgError", coeffs |-> <<>>]
         ELSE [exc |-> "none", coeffs |-> [k \in 1..(deg + 1) |-> NaN]]
    ELSE [exc |-> "none", coeffs |-> IF deg = 1 THEN polyfit1(x, y) ELSE polyfit2(x, y)]

\* np.polyval(coeffs, x) for a degree-1 coeffs
polyval1(coeffs, x) == [i \in 1..Len(x) |-> RAdd(RMul(coeffs[1], RInt(x[i])), coeffs[2])]

\* np.polyval(coeffs, x) for a degree-2 coeffs (Horner)
polyval2(coeffs, x) ==
    [i \in 1..Len(x) |->
        RAdd(RMul(RAdd(RMul(coeffs[1], RInt(x[i])), coeffs[2]), RInt(x[i])), coeffs[3])]

\* result -= trend[np.newaxis, :]
sub_from_rows(result, trend) ==
    [r \in 1..Rows(result) |-> [c \in 1..Cols(result) |-> RSub(result[r][c], trend[c])]]

\* result -= trend[:, np.newaxis]
sub_from_columns(result, trend) ==
    [r \in 1..Rows(result) |-> [c \in 1..Cols(result) |-> RSub(result[r][c], trend[r])]]

first_column(a) == [r \in 1..Rows(a) |-> a[r][1]]

\* coeffs = np.polyfit(x, profile, 1); trend = np.polyval(coeffs, x) for
\* x = np.arange(len(profile)): the trend, or the exception np.polyfit raised
linear_trend(profile, lapack_raises) ==
    Bind(np_arange(Len(profile)), LAMBDA x :
    Bind(np_polyfit(x, profile, 1, lapack_raises), LAMBDA fit :
        IF fit.exc # "none" THEN [exc |-> fit.exc, trend |-> <<>>]
        ELSE [exc |-> "none", trend |-> polyval1(fit.coeffs, x)]))

remove_linear_trend_mut_no_size_check(phase_data, lapack_raises) ==
    IF Rows(phase_data) = 0 THEN [exc |-> "IndexError", ret |-> <<>>]
    ELSE
    Bind(phase_data, LAMBDA result0 :
    Bind(linear_trend(result0[1], lapack_raises), LAMBDA h :
        IF h.exc # "none" THEN [exc |-> h.exc, ret |-> <<>>]
        ELSE
        Bind(sub_from_rows(result0, h.trend), LAMBDA result1 :
        Bind(linear_trend(first_column(result1), lapack_raises), LAMBDA v :
            IF v.exc # "none" THEN [exc |-> v.exc, ret |-> <<>>]
            ELSE [exc |-> "none", ret |-> sub_from_columns(result1, v.trend)]))))

remove_linear_trend_mut_original_column(phase_data, lapack_raises) ==
    IF np_size(phase_data) = 0 THEN [exc |-> "none", ret |-> phase_data]
    ELSE
    Bind(phase_data, LAMBDA result0 :
    Bind(linear_trend(result0[1], lapack_raises), LAMBDA h :
        IF h.exc # "none" THEN [exc |-> h.exc, ret |-> <<>>]
        ELSE
        Bind(sub_from_rows(result0, h.trend), LAMBDA result1 :
        Bind(linear_trend(first_column(result0), lapack_raises), LAMBDA v :
            IF v.exc # "none" THEN [exc |-> v.exc, ret |-> <<>>]
            ELSE [exc |-> "none", ret |-> sub_from_columns(result1, v.trend)]))))

\* remove_linear_trend: what it returns (ret), or the exception it lets through
\* (exc; neither np.polyfit call is inside a try)
remove_linear_trend(phase_data, lapack_raises) ==
    IF np_size(phase_data) = 0 THEN [exc |-> "none", ret |-> phase_data]
    ELSE
    Bind(phase_data, LAMBDA result0 :
    Bind(linear_trend(result0[1], lapack_raises), LAMBDA h :
        IF h.exc # "none" THEN [exc |-> h.exc, ret |-> <<>>]
        ELSE
        Bind(sub_from_rows(result0, h.trend), LAMBDA result1 :
        Bind(linear_trend(first_column(result1), lapack_raises), LAMBDA v :
            IF v.exc # "none" THEN [exc |-> v.exc, ret |-> <<>>]
            ELSE [exc |-> "none", ret |-> sub_from_columns(result1, v.trend)]))))

\* _fit_polynomial_trend: the degree-2 trend of the profile, np.zeros(size) when
\* np.polyfit raised
fit_polynomial_trend(profile, size, lapack_raises) ==
    Bind(np_arange(size), LAMBDA x :
    Bind(np_polyfit(x, profile, 2, lapack_raises), LAMBDA fit :
        IF fit.exc # "none" THEN [i \in 1..size |-> RInt(0)]
        ELSE polyval2(fit.coeffs, x)))

\* remove_polynomial_trend: both trends are fitted to the profiles of the map as
\* it came in, then both are subtracted
remove_polynomial_trend(phase_data, lapack_raises) ==
    IF np_size(phase_data) = 0 THEN [exc |-> "none", ret |-> phase_data]
    ELSE
    Bind(phase_data, LAMBDA result0 :
    Bind(fit_polynomial_trend(result0[1], Cols(result0), lapack_raises), LAMBDA horizontal_trend :
    Bind(fit_polynomial_trend(first_column(result0), Rows(result0), lapack_raises), LAMBDA vertical_trend :
        [exc |-> "none",
         ret |-> sub_from_columns(sub_from_rows(result0, horizontal_trend), vertical_trend)])))

\* the caller's phase_data once the trend removal has returned result: result is
\* a copy (result = phase_data.copy()), or phase_data itself, untouched, when
\* its size is 0
phase_data_after_trend(phase_data, result) == phase_data

----------------------------------------------------------------------------
(* Inputs *)

Thresholds == {<<1, 2>>, <<4, 5>>, <<1, 1>>}

Lambdas == {2 * k : k \in 1..MaxHalfLam}

Shapes == {s \in (1..MaxCells) \X (1..MaxCells) : s[1] * s[2] <= MaxCells}

MapsOf(rows, cols, V) == [1..rows -> [1..cols -> V]]

\* pixel values of the arbitrary maps
Vals == {0, 1, 2}

SmallMaps == UNION {MapsOf(s[1], s[2], Vals) : s \in Shapes}

\* a linear ramp with a jump of amp added from column k onward (k > cols: no jump)
RampJump(cols, step, k, amp) ==
    << [c \in 1..cols |-> step * (c - 1) + (IF c >= k THEN amp ELSE 0)] >>

RampMaps(lam) ==
    {RampJump(n, s, k, amp) : n \in 2..MaxRampLen, s \in (-MaxSlope)..MaxSlope,
                              k \in 2..(MaxRampLen + 1), amp \in {lam \div 2, lam}}

NoMask == <<>>

MaskDims == {1, 2}

Delimeters == {1, 2}

\* a ramp of slopes sx, sy with amp added on the rectangle of rows r0..r1 and
\* columns c0..c1
PatchMap(rows, cols, sx, sy, r0, r1, c0, c1, amp) ==
    [r \in 1..rows |-> [c \in 1..cols |->
        sx * (c - 1) + sy * (r - 1)
          + (IF r >= r0 /\ r <= r1 /\ c >= c0 /\ c <= c1 THEN amp ELSE 0)]]

TileSlopes == {<<0, 0>>, <<1, 1>>}

TileThresholds == {<<4, 5>>, <<1, 1>>}

TileLambdas == {4}

TileDelimeters == 2..MaxDelimeter

PatchMaps(lam) ==
    {PatchMap(d[1], d[2], sl[1], sl[2], rr[1], rr[2], cc[1], cc[2], amp) :
        d \in (1..MaxDim) \X (1..MaxDim), sl \in TileSlopes,
        rr \in {x \in (1..MaxDim) \X (1..MaxDim) : x[1] <= x[2]},
        cc \in {x \in (1..MaxDim) \X (1..MaxDim) : x[1] <= x[2]},
        amp \in {lam \div 2, lam}}

ScenarioSlopes == {-2, -1, 0, 1, 2}

\* a ramp on a 2 x 2 grid of tiles with a jump of lambda on a rectangle inside the
\* last tile, tile (1, 1)
ScenarioMaps(lam) ==
    {PatchMap(2 * ScenarioTile, 2 * ScenarioTile, sl[1], sl[2], rr[1], rr[2], cc[1], cc[2], lam) :
        sl \in ScenarioSlopes \X ScenarioSlopes,
        rr \in {x \in ((ScenarioTile + 1)..(2 * ScenarioTile)) \X ((ScenarioTile + 1)..(2 * ScenarioTile)) : x[1] <= x[2]},
        cc \in {x \in ((ScenarioTile + 1)..(2 * ScenarioTile)) \X ((ScenarioTile + 1)..(2 * ScenarioTile)) : x[1] <= x[2]}}

\* the plane z = (a * x + b * y + c) / den, x the column and y the row index
PlaneMap(rows, cols, a, b, c, den) ==
    [r \in 1..rows |-> [c1 \in 1..cols |-> RNorm(<<a * (c1 - 1) + b * (r - 1) + c, den>>)]]

PlaneMaps ==
    {PlaneMap(d[1], d[2], k[1], k[2], k[3], den) :
        d \in (2..MaxTrendDim) \X (2..MaxTrendDim),
        k \in ((-MaxCoeff)..MaxCoeff) \X ((-MaxCoeff)..MaxCoeff) \X ((-MaxCoeff)..MaxCoeff),
        den \in {1, 2}}

\* the arbitrary maps with at least 2 rows and 2 columns, as maps of rationals
TrendMaps ==
    {[r \in 1..Rows(a) |-> [c \in 1..Cols(a) |-> RInt(a[r][c])]] :
        a \in {m \in SmallMaps : Rows(m) >= 2 /\ Cols(m) >= 2}}

\* the paraboloid z = (a * x^2 + b * y^2 + c) / den, x the column and y the row index
ParaboloidMap(rows, cols, a, b, c, den) ==
    [r \in 1..rows |-> [c1 \in 1..cols |->
        RNorm(<<a * (c1 - 1) * (c1 - 1) + b * (r - 1) * (r - 1) + c, den>>)]]

ParaboloidMaps ==
    {ParaboloidMap(d[1], d[2], k[1], k[2], k[3], den) :
        d \in (3..MaxTrendDim) \X (3..MaxTrendDim),
        k \in ((-MaxCoeff)..MaxCoeff) \X ((-MaxCoeff)..MaxCoeff) \X ((-MaxCoeff)..MaxCoeff),
        den \in {1, 2}}

\* the maps of 3 rows and 3 columns with pixels 0 and 1, as maps of rationals
GridMaps == [1..3 -> [1..3 -> {RInt(0), RInt(1)}]]

\* the maps of one row or one column, as maps of rationals
LineMaps ==
    {[r \in 1..Rows(a) |-> [c \in 1..Cols(a) |-> RInt(a[r][c])]] :
        a \in {m \in SmallMaps : Rows(m) = 1 \/ Cols(m) = 1}}

\* first row and first column all k, the pixel at row r > 0 and column c > 0 is
\* k + v * r * c
ConstProfileMap(rows, cols, k, v) ==
    [r \in 1..rows |-> [c \in 1..cols |-> RInt(k + v * (r - 1) * (c - 1))]]

ConstProfileMaps ==
    {ConstProfileMap(d[1], d[2], k, v) :
        d \in (2..MaxTrendDim) \X (2..MaxTrendDim),
        k \in ((-MaxCoeff)..MaxCoeff) \ {0}, v \in (-MaxCoeff)..MaxCoeff}

\* the arrays of size 0
ZeroSizeMaps == {<<>>, << <<>> >>, << <<>>, <<>> >>}

\* the maps handed to every stage: the arrays of size 0 and the square maps
StageMaps == ZeroSizeMaps \cup {m \in SmallMaps : Rows(m) = Cols(m)}

\* a map of integers as a map of rationals
RMap(a) == [r \in 1..Rows(a) |-> [c \in 1..Cols(a) |-> RInt(a[r][c])]]

\* frames of one pixel and of two pixels
Frames == {<< <<0>> >>, << <<1>> >>, << <<2>> >>, << <<1, 2>> >>, << <<2, 0>> >>}

FrameLists == UNION {[1..n -> Frames] : n \in 0..MaxFrames}

StepCounts == 0..MaxSteps

\* tile masks, indexed [x_block][y_block]
Masks == UNION {[1..nx -> [1..ny -> BOOLEAN]] : nx \in MaskDims, ny \in MaskDims}

----------------------------------------------------------------------------
(* The calls *)

Init ==
    /\ lambda_angstrom \in Lambdas
    /\ img \in SmallMaps \cup RampMaps(lambda_angstrom)
    /\ phase_array = <<>>
    /\ frame_list = <<>>
    /\ call = [op |-> "none"]
    /\ ret = <<>>
    /\ ret_flag = FALSE
    /\ exc = "none"
    /\ tiles_mask = NoMask
    /\ writes = <<>>
    /\ todo = {}
    /\ pc = NoLoop
    /\ arduino = NewArduinoController
    /\ wire = <<>>
    /\ recorder = NewDPIRecorder

ThresholdUnwrap ==
    /\ call.op = "none"
    /\ \E threshold \in Thresholds, iterations \in 0..MaxIter,
          horizontal \in BOOLEAN, vertical \in BOOLEAN :
          /\ call' = [op |-> "threshold_unwrap", height_map |-> img,
                      threshold |-> threshold, iterations |-> iterations,
                      horizontal |-> horizontal, vertical |-> vertical]
          /\ \E h \in {threshold_unwrap(lambda_angstrom, img, threshold, iterations,
                                        horizontal, vertical)} :
                /\ ret' = h
                /\ img' = height_map_after_unwrap(img, h)
    /\ UNCHANGED <<lambda_angstrom, phase_array, frame_list, ret_flag, exc, tiles_mask, writes, todo, pc, arduino, wire, recorder>>

PhaseJump ==
    /\ call.op = "none"
    /\ \E threshold \in Thresholds :
          /\ call' = [op |-> "phase_jump", tile |-> img, threshold |-> threshold]
          /\ ret_flag' = phase_jump(lambda_angstrom, img, threshold)
    /\ img' = tile_after_phase_jump(img)
    /\ UNCHANGED <<lambda_angstrom, phase_array, frame_list, ret, exc, tiles_mask, writes, todo, pc, arduino, wire, recorder>>

\* special_unwrap works on the caller's array p in place and returns it
SpecialUnwrap ==
    /\ call.op = "none"
    /\ \E mask \in Masks, delimeter \in Delimeters, threshold \in Thresholds :
          /\ call' = [op |-> "special_unwrap", p |-> img, tiles_mask |-> mask,
                      delimeter |-> delimeter, threshold |-> threshold]
          /\ \E p \in {special_unwrap(lambda_angstrom, img, mask, delimeter, threshold)} :
                /\ img' = p
                /\ ret' = p
    /\ UNCHANGED <<lambda_angstrom, phase_array, frame_list, ret_flag, exc, tiles_mask, writes, todo, pc, arduino, wire, recorder>>

Next == ThresholdUnwrap \/ PhaseJump

Spec == Init /\ [][Next]_vars

----------------------------------------------------------------------------
(* special_unwrap called on arbitrary maps and tile masks *)

InitSpecial ==
    /\ lambda_angstrom \in Lambdas
    /\ img \in SmallMaps
    /\ phase_array = <<>>
    /\ frame_list = <<>>
    /\ call = [op |-> "none"]
    /\ ret = <<>>
    /\ ret_flag = FALSE
    /\ exc = "none"
    /\ tiles_mask = NoMask
    /\ writes = <<>>
    /\ todo = {}
    /\ pc = NoLoop
    /\ arduino = NewArduinoController
    /\ wire = <<>>
    /\ recorder = NewDPIRecorder

NextSpecial == SpecialUnwrap

SpecSpecial == InitSpecial /\ [][NextSpecial]_vars

----------------------------------------------------------------------------
(* tile_unwrap called on ramps with one raised rectangle *)

InitTile ==
    /\ lambda_angstrom \in TileLambdas
    /\ img \in PatchMaps(lambda_angstrom)
    /\ phase_array = <<>>
    /\ frame_list = <<>>
    /\ call = [op |-> "none"]
    /\ ret = <<>>
    /\ ret_flag = FALSE
    /\ exc = "none"
    /\ tiles_mask = NoMask
    /\ writes = <<>>
    /\ todo = {}
    /\ pc = NoLoop
    /\ arduino = NewArduinoController
    /\ wire = <<>>
    /\ recorder = NewDPIRecorder

\* the call tile_unwrap(img, delimeter, threshold, horizontal, vertical, use_special)
TileUnwrapCall(delimeter, threshold, horizontal, vertical, use_special) ==
    /\ call.op = "none"
    /\ \E st \in {tile_pass(lambda_angstrom, img, delimeter, threshold, horizontal, vertical)} :
          /\ call' = [op |-> "tile_unwrap", height_map |-> img, delimeter |-> delimeter,
                      threshold |-> threshold, horizontal |-> horizontal,
                      vertical |-> vertical, use_special |-> use_special]
          /\ \E b \in {tile_result(lambda_angstrom, st, delimeter, threshold, use_special)} :
                /\ ret' = b
                /\ img' = height_map_after_tile_unwrap(img, b)
          /\ tiles_mask' = st.tiles_mask
          /\ writes' = st.writes
    /\ UNCHANGED <<lambda_angstrom, phase_array, frame_list, ret_flag, exc, todo, pc, arduino, wire, recorder>>

\* tile_unwrap without the special pass
TileUnwrapLocal ==
    \E delimeter \in TileDelimeters, threshold \in TileThresholds,
       horizontal \in BOOLEAN, vertical \in BOOLEAN :
        TileUnwrapCall(delimeter, threshold, horizontal, vertical, FALSE)

\* tile_unwrap with its default flags (both axes, the special pass) on a 2 x 2 tile grid
TileUnwrapDefault ==
    \E threshold \in Thresholds :
        TileUnwrapCall(ScenarioTile, threshold, TRUE, TRUE, TRUE)

NextTile == TileUnwrapLocal

SpecTile == InitTile /\ [][NextTile]_vars

----------------------------------------------------------------------------
(* tile_unwrap called on the scenario maps *)

InitScenario ==
    /\ lambda_angstrom \in TileLambdas
    /\ img \in ScenarioMaps(lambda_angstrom)
    /\ phase_array = <<>>
    /\ frame_list = <<>>
    /\ call = [op |-> "none"]
    /\ ret = <<>>
    /\ ret_flag = FALSE
    /\ exc = "none"
    /\ tiles_mask = NoMask
    /\ writes = <<>>
    /\ todo = {}
    /\ pc = NoLoop
    /\ arduino = NewArduinoController
    /\ wire = <<>>
    /\ recorder = NewDPIRecorder

NextScenario == TileUnwrapDefault

SpecScenario == InitScenario /\ [][NextScenario]_vars

----------------------------------------------------------------------------
(* the loop of tile_unwrap with its tiles taken in any order: TileLoopBegin is *)
(* the code before the loop, TileLoopStep the loop body for one tile that is   *)
(* still to do.  ret holds b.                                                  *)

TileLoopBegin ==
    /\ call.op = "none"
    /\ \E threshold \in TileThresholds, horizontal \in BOOLEAN, vertical \in BOOLEAN :
          call' = [op |-> "tile_loop", height_map |-> img, delimeter |-> ScenarioTile,
                   threshold |-> threshold, horizontal |-> horizontal, vertical |-> vertical]
    /\ \E nx \in {grid(Cols(img), ScenarioTile)}, ny \in {grid(Rows(img), ScenarioTile)} :
          /\ ret' = np_zeros(Rows(img), Cols(img))
          /\ tiles_mask' = [x \in 1..nx |-> [y \in 1..ny |-> FALSE]]
          /\ writes' = np_zeros(Rows(img), Cols(img))
          /\ todo' = (0..(ny - 1)) \X (0..(nx - 1))
    /\ UNCHANGED <<lambda_angstrom, img, phase_array, frame_list, ret_flag, exc, pc, arduino, wire, recorder>>

TileLoopStep ==
    /\ call.op = "tile_loop"
    /\ \E t \in todo :
       \E st \in {tile_step(lambda_angstrom, img, [b |-> ret, tiles_mask |-> tiles_mask, writes |-> writes],
                             t[1], t[2], call.delimeter, call.threshold,
                             call.horizontal, call.vertical)} :
          /\ ret' = st.b
          /\ tiles_mask' = st.tiles_mask
          /\ writes' = st.writes
          /\ todo' = todo \ {t}
    /\ UNCHANGED <<lambda_angstrom, img, phase_array, frame_list, call, ret_flag, exc, pc, arduino, wire, recorder>>

NextTileLoop == TileLoopBegin \/ TileLoopStep

SpecTileLoop == InitScenario /\ [][NextTileLoop]_vars

----------------------------------------------------------------------------
(* the trend removal called on planes and on arbitrary maps *)

InitTrend ==
    /\ lambda_angstrom \in Lambdas
    /\ img = <<>>
    /\ phase_array \in PlaneMaps \cup TrendMaps \cup GridMaps \cup LineMaps
    /\ frame_list = <<>>
    /\ call = [op |-> "none"]
    /\ ret = <<>>
    /\ ret_flag = FALSE
    /\ exc = "none"
    /\ tiles_mask = NoMask
    /\ writes = <<>>
    /\ todo = {}
    /\ pc = NoLoop
    /\ arduino = NewArduinoController
    /\ wire = <<>>
    /\ recorder = NewDPIRecorder

RemoveLinearTrend ==
    /\ call.op = "none"
    /\ \E lapack_raises \in BOOLEAN :
       \E st \in {remove_linear_trend(phase_array, lapack_raises)} :
          /\ call' = [op |-> "remove_linear_trend", phase_data |-> phase_array,
                      lapack_raises |-> lapack_raises]
          /\ exc' = st.exc
          /\ ret' = st.ret
          /\ phase_array' = phase_data_after_trend(phase_array, st.ret)
    /\ UNCHANGED <<lambda_angstrom, img, frame_list, ret_flag, tiles_mask, writes, todo, pc, arduino, wire, recorder>>

RemovePolynomialTrend ==
    /\ call.op = "none"
    /\ \E lapack_raises \in BOOLEAN :
       \E st \in {remove_polynomial_trend(phase_array, lapack_raises)} :
          /\ call' = [op |-> "remove_polynomial_trend", phase_data |-> phase_array,
                      lapack_raises |-> lapack_raises]
          /\ exc' = st.exc
          /\ ret' = st.ret
          /\ phase_array' = phase_data_after_trend(phase_array, st.ret)
    /\ UNCHANGED <<lambda_angstrom, img, frame_list, ret_flag, tiles_mask, writes, todo, pc, arduino, wire, recorder>>

NextTrend == RemoveLinearTrend

SpecTrend == InitTrend /\ [][NextTrend]_vars

----------------------------------------------------------------------------
(* the polynomial trend removal called on paraboloids and on arbitrary maps *)

InitPoly ==
    /\ lambda_angstrom \in Lambdas
    /\ img = <<>>
    /\ phase_array \in ParaboloidMaps \cup TrendMaps \cup GridMaps \cup LineMaps
    /\ frame_list = <<>>
    /\ call = [op |-> "none"]
    /\ ret = <<>>
    /\ ret_flag = FALSE
    /\ exc = "none"
    /\ tiles_mask = NoMask
    /\ writes = <<>>
    /\ todo = {}
    /\ pc = NoLoop
    /\ arduino = NewArduinoController
    /\ wire = <<>>
    /\ recorder = NewDPIRecorder

NextPoly == RemovePolynomialTrend

SpecPoly == InitPoly /\ [][NextPoly]_vars

----------------------------------------------------------------------------
(* both trend removals called on maps with constant profiles and on maps of *)
(* one row or one column                                                    *)

InitFit ==
    /\ lambda_angstrom \in Lambdas
    /\ img = <<>>
    /\ phase_array \in ConstProfileMaps \cup LineMaps
    /\ frame_list = <<>>
    /\ call = [op |-> "none"]
    /\ ret = <<>>
    /\ ret_flag = FALSE
    /\ exc = "none"
    /\ tiles_mask = NoMask
    /\ writes = <<>>
    /\ todo = {}
    /\ pc = NoLoop
    /\ arduino = NewArduinoController
    /\ wire = <<>>
    /\ recorder = NewDPIRecorder

NextFit == RemoveLinearTrend \/ RemovePolynomialTrend

SpecFit == InitFit /\ [][NextFit]_vars

----------------------------------------------------------------------------
(* every stage called on the arrays of size 0 and on small maps *)

InitStages ==
    /\ lambda_angstrom \in Lambdas
    /\ img \in StageMaps
    /\ phase_array = RMap(img)
    /\ frame_list = <<>>
    /\ call = [op |-> "none"]
    /\ ret = <<>>
    /\ ret_flag = FALSE
    /\ exc = "none"
    /\ tiles_mask = NoMask
    /\ writes = <<>>
    /\ todo = {}
    /\ pc = NoLoop
    /\ arduino = NewArduinoController
    /\ wire = <<>>
    /\ recorder = NewDPIRecorder

\* tile_unwrap with and without the special pass
TileUnwrapAny ==
    \E delimeter \in TileDelimeters, threshold \in TileThresholds,
       horizontal \in BOOLEAN, vertical \in BOOLEAN, use_special \in BOOLEAN :
        TileUnwrapCall(delimeter, threshold, horizontal, vertical, use_special)

NextStages ==
    \/ ThresholdUnwrap
    \/ PhaseJump
    \/ SpecialUnwrap
    \/ TileUnwrapAny
    \/ RemoveLinearTrend
    \/ RemovePolynomialTrend

SpecStages == InitStages /\ [][NextStages]_vars

----------------------------------------------------------------------------
(* compute_phase called on lists of frames *)

InitPhase ==
    /\ lambda_angstrom \in Lambdas
    /\ img = <<>>
    /\ phase_array = <<>>
    /\ frame_list \in FrameLists
    /\ call = [op |-> "none"]
    /\ ret = <<>>
    /\ ret_flag = FALSE
    /\ exc = "none"
    /\ tiles_mask = NoMask
    /\ writes = <<>>
    /\ todo = {}
    /\ pc = NoLoop
    /\ arduino = NewArduinoController
    /\ wire = <<>>
    /\ recorder = NewDPIRecorder

ComputePhase ==
    /\ call.op = "none"
    /\ \E steps \in StepCounts : \E st \in {compute_phase(frame_list, steps)} :
          /\ call' = [op |-> "compute_phase", images |-> frame_list, steps |-> steps]
          /\ exc' = st.exc
          /\ ret' = st.wrapped_phase
    /\ UNCHANGED <<lambda_angstrom, img, phase_array, frame_list, ret_flag, tiles_mask, writes, todo, pc, arduino, wire, recorder>>

NextPhase == ComputePhase

SpecPhase == InitPhase /\ [][NextPhase]_vars

----------------------------------------------------------------------------
(* The sequential scan of the specification (section 4.3), for comparison *)

\* 0.5 * lam * threshold as a fraction, and d > limit
Limit(lam, threshold) == <<lam * threshold[1], 2 * threshold[2]>>
Above(d, limit) == d * limit[2] > limit[1]

Transpose(a) == [c \in 1..Cols(a) |-> [r \in 1..Rows(a) |-> a[r][c]]]

RECURSIVE ScanFrom(_, _, _, _, _, _, _)
ScanFrom(line, i, lastValue, offset, limit, step, out) ==
    IF i > Len(line) THEN out
    ELSE Bind(line[i], LAMBDA v :
         Bind(IF Above(v - lastValue, limit) THEN offset - step
              ELSE IF Above(lastValue - v, limit) THEN offset + step
              ELSE offset, LAMBDA off :
         Bind(Append(out, v + off), LAMBDA out1 :
             ScanFrom(line, i + 1, v, off, limit, step, out1))))

ScanLine(line, limit, step) ==
    IF Len(line) = 0 THEN line
    ELSE ScanFrom(line, 2, line[1], 0, limit, step, <<line[1]>>)

ScanRows(a, limit, step) ==
    Bind(a, LAMBDA av : [r \in 1..Rows(av) |-> Bind(av[r], LAMBDA line : ScanLine(line, limit, step))])

ScanColumns(a, limit, step) ==
    Bind(a, LAMBDA av :
        IF Rows(av) = 0 \/ Cols(av) = 0 THEN av
        ELSE Bind(ScanRows(Transpose(av), limit, step), LAMBDA t : Transpose(t)))

SequentialScan(lam, a, threshold, horizontal, vertical) ==
    LET limit == Limit(lam, threshold)
        step == lam \div 2
        a1 == IF horizontal THEN ScanRows(a, limit, step) ELSE a
    IN  IF vertical THEN ScanColumns(a1, limit, step) ELSE a1

\* no horizontally and no vertically adjacent pair differs by more than limit
Smooth(a, limit) ==
    /\ \A r \in 1..Rows(a) : \A c \in 1..(Cols(a) - 1) :
          ~Above(Abs(a[r][c + 1] - a[r][c]), limit)
    /\ \A r \in 1..(Rows(a) - 1) : \A c \in 1..Cols(a) :
          ~Above(Abs(a[r + 1][c] - a[r][c]), limit)

\* some adjacent pair differs by strictly more than limit
SomeAdjacentJump(a, limit) ==
    \E r \in 1..Rows(a) : \E c \in 1..Cols(a) :
        \/ c < Cols(a) /\ Above(Abs(a[r][c] - a[r][c + 1]), limit)
        \/ r < Rows(a) /\ Above(Abs(a[r][c] - a[r + 1][c]), limit)

Ramp(cols, step) == RampJump(cols, step, cols + 1, 0)

RampParams ==
    {p \in (2..(MaxRampLen + 1)) \X ((-MaxSlope - 1)..(MaxSlope + 1)) \X (2..(MaxRampLen + 1)) :
        p[3] <= p[1]}

----------------------------------------------------------------------------
(* Claims *)

\* C1: one iteration of threshold_unwrap returns exactly the map of the
\* specification's sequential scan (lastValue = pre-correction sample, offset
\* accumulated along the line, rows first and then columns), for every map,
\* lambda, threshold and choice of axis flags.
C1_UnwrapIsSequentialScan ==
    (call.op = "threshold_unwrap" /\ Max(1, call.iterations) = 1)
        => ret = SequentialScan(lambda_angstrom, call.height_map, call.threshold,
                                call.horizontal, call.vertical)

C1_Witness ==
    /\ call.op = "threshold_unwrap" /\ call.iterations = 1
    /\ call.horizontal /\ call.vertical
    /\ Rows(call.height_map) > 1 /\ Cols(call.height_map) > 1
    /\ ret # call.height_map
    /\ ret # threshold_unwrap(lambda_angstrom, call.height_map, call.threshold, 1, TRUE, FALSE)

\* C2: on a map with no adjacent difference above the limit, threshold_unwrap
\* returns its input, for every iteration count and every choice of axis flags,
\* and so does a second application.
C2_SmoothIsFixed ==
    (call.op = "threshold_unwrap"
        /\ Smooth(call.height_map, Limit(lambda_angstrom, call.threshold)))
        => /\ ret = call.height_map
           /\ threshold_unwrap(lambda_angstrom, ret, call.threshold, call.iterations,
                               call.horizontal, call.vertical) = ret

C2_Witness ==
    /\ call.op = "threshold_unwrap" /\ call.iterations = 2
    /\ call.horizontal /\ call.vertical
    /\ Rows(call.height_map) > 1 /\ Cols(call.height_map) > 1
    /\ Smooth(call.height_map, Limit(lambda_angstrom, call.threshold))
    /\ call.height_map[1][1] # call.height_map[2][2]
    /\ \E r \in 1..Rows(call.height_map) : \E c \in 1..(Cols(call.height_map) - 1) :
          (call.height_map[r][c + 1] - call.height_map[r][c]) * 2 * call.threshold[2]
              = lambda_angstrom * call.threshold[1]
    /\ ret = call.height_map

\* the calls C3 is about: one iteration, horizontal pass enabled, on the 1-row
\* ramp of the given step with a jump of lambda/2 from index k onward
C3_Case(n, s, k) ==
    /\ call.op = "threshold_unwrap" /\ Max(1, call.iterations) = 1 /\ call.horizontal
    /\ call.height_map = RampJump(n, s, k, lambda_angstrom \div 2)
    /\ ~Above(Abs(s), Limit(lambda_angstrom, call.threshold))

\* C3 (as stated): the result has no adjacent difference above the limit and is
\* the original ramp without the discontinuity.
C3_Original ==
    \A p \in RampParams :
        C3_Case(p[1], p[2], p[3])
            => /\ Smooth(ret, Limit(lambda_angstrom, call.threshold))
               /\ ret = Ramp(p[1], p[2])

\* C3 (amended): the result has no adjacent difference above the limit; it is the
\* original ramp when step + lambda/2 is strictly above the limit, and the input
\* unchanged otherwise.
C3_RampJumpRemoved ==
    \A p \in RampParams :
        C3_Case(p[1], p[2], p[3])
            => /\ Smooth(ret, Limit(lambda_angstrom, call.threshold))
               /\ ret = IF Above(p[2] + lambda_angstrom \div 2,
                                    Limit(lambda_angstrom, call.threshold))
                        THEN Ramp(p[1], p[2])
                        ELSE call.height_map

C3_Witness ==
    /\ C3_Case(4, 1, 3)
    /\ ret = Ramp(4, 1)
    /\ ret # call.height_map

\* the calls C4's ramp cases are about
C4_RampCase(n, s, k, amp) ==
    /\ call.op = "phase_jump"
    /\ call.tile = RampJump(n, s, k, amp)
    /\ ~Above(Abs(s), Limit(lambda_angstrom, call.threshold))

\* C4 (as stated): phase_jump is true iff some adjacent pair differs by strictly
\* more than the limit; false for a ramp within the limit, true for the same ramp
\* with one injected jump of lambda.
C4_Original ==
    /\ call.op = "phase_jump"
         => (ret_flag <=> SomeAdjacentJump(call.tile, Limit(lambda_angstrom, call.threshold)))
    /\ \A p \in RampParams :
          /\ C4_RampCase(p[1], p[2], p[1] + 1, 0) => ret_flag = FALSE
          /\ C4_RampCase(p[1], p[2], p[3], lambda_angstrom) => ret_flag = TRUE

\* C4 (amended): as stated, except that the ramp with an injected jump of lambda
\* gives true exactly when step + lambda is strictly above the limit (every step
\* within the limit except step = -lambda/2 with threshold = 1).
C4_PhaseJumpDetects ==
    /\ call.op = "phase_jump"
         => (ret_flag <=> SomeAdjacentJump(call.tile, Limit(lambda_angstrom, call.threshold)))
    /\ \A p \in RampParams :
          /\ C4_RampCase(p[1], p[2], p[1] + 1, 0) => ret_flag = FALSE
          /\ C4_RampCase(p[1], p[2], p[3], lambda_angstrom)
                => (ret_flag <=> ~(call.threshold[1] = call.threshold[2]
                              /\ 2 * p[2] = -lambda_angstrom))

C4_Witness ==
    /\ C4_RampCase(4, 1, 3, lambda_angstrom)
    /\ ret_flag = TRUE
    /\ ~phase_jump(lambda_angstrom, Ramp(4, 1), call.threshold)

CeilDiv(a, b) == (a + b - 1) \div b

\* the tile owning pixel (r, c), as the sub-map rows x columns it covers
TileRows(a, Y_idx, d) == ((Y_idx * d) + 1)..Min((Y_idx + 1) * d, Rows(a))
TileCols(a, X_idx, d) == ((X_idx * d) + 1)..Min((X_idx + 1) * d, Cols(a))

TileOf(a, X_idx, Y_idx, d) ==
    [r \in 1..Cardinality(TileRows(a, Y_idx, d)) |->
        [c \in 1..Cardinality(TileCols(a, X_idx, d)) |-> a[Y_idx * d + r][X_idx * d + c]]]

\* the 1-iteration threshold_unwrap of the tile (X_idx, Y_idx) of the call's map
UnwrappedTile(X_idx, Y_idx) ==
    threshold_unwrap(lambda_angstrom, TileOf(call.height_map, X_idx, Y_idx, call.delimeter),
                     call.threshold, 1, call.horizontal, call.vertical)

\* C5 (as stated): the tile mask has dimensions (ceil(W / tileSize),
\* ceil(H / tileSize)) for every width W, height H and tile size.
C5_MaskDimensions ==
    call.op = "tile_unwrap"
        => /\ Rows(tiles_mask) = CeilDiv(Cols(call.height_map), call.delimeter)
           /\ Cols(tiles_mask) = CeilDiv(Rows(call.height_map), call.delimeter)

\* C6 (as stated): every pixel of the assembled map is written exactly once, by
\* the tile that owns it, and with use_special = False equals the value it has in
\* the 1-iteration threshold_unwrap of that tile's sub-map.
C6_EveryPixelWrittenOnce ==
    call.op = "tile_unwrap"
        => \A r \in 1..Rows(call.height_map) : \A c \in 1..Cols(call.height_map) :
              /\ writes[r][c] = 1
              /\ ~call.use_special
                    => ret[r][c] =
                         UnwrappedTile((c - 1) \div call.delimeter, (r - 1) \div call.delimeter)
                            [((r - 1) % call.delimeter) + 1][((c - 1) % call.delimeter) + 1]

\* C7: every entry [X][Y] of the tile mask equals phase_jump of the tile at tile
\* column X and tile row Y after its 1-iteration threshold_unwrap: true when the
\* unwrapped tile still has an adjacent difference above the limit, false when it
\* is smooth.
C7_MaskIsJumpOfUnwrappedTile ==
    call.op = "tile_unwrap"
        => \A X \in 1..Rows(tiles_mask) : \A Y \in 1..Cols(tiles_mask) :
              \A u \in {UnwrappedTile(X - 1, Y - 1)} :
                 /\ tiles_mask[X][Y] = phase_jump(lambda_angstrom, u, call.threshold)
                 /\ tiles_mask[X][Y] = ~Smooth(u, Limit(lambda_angstrom, call.threshold))

C7_Witness ==
    /\ call.op = "tile_unwrap"
    /\ Rows(tiles_mask) > 1 /\ Cols(tiles_mask) > 1
    /\ \E X \in 1..Rows(tiles_mask) : \E Y \in 1..Cols(tiles_mask) : tiles_mask[X][Y]
    /\ \E X \in 1..Rows(tiles_mask) : \E Y \in 1..Cols(tiles_mask) :
          /\ ~tiles_mask[X][Y]
          /\ ~Smooth(TileOf(call.height_map, X - 1, Y - 1, call.delimeter),
                     Limit(lambda_angstrom, call.threshold))
    /\ tiles_mask[1][2] # tiles_mask[2][1]

\* the calls C8 is about: a 2 x 2 grid of tiles, the special pass requested
C8_Case ==
    /\ call.op = "tile_unwrap"
    /\ call.use_special /\ call.horizontal /\ call.vertical
    /\ call.delimeter = ScenarioTile
    /\ \A r \in 1..(Rows(call.height_map) - 1) :
          ~Above(Abs(call.height_map[r + 1][1] - call.height_map[r][1]),
                 Limit(lambda_angstrom, call.threshold))
    /\ \A c \in 1..(Cols(call.height_map) - 1) :
          ~Above(Abs(call.height_map[1][c + 1] - call.height_map[1][c]),
                 Limit(lambda_angstrom, call.threshold))

\* C8 (as stated): for a smooth ramp plus one +lambda jump inside tile (1,1) of a
\* 2 x 2 tile grid, tile_unwrap with use_special = True marks only that tile true
\* and returns a map with no adjacent difference above the limit.
C8_Original ==
    C8_Case
        => /\ \A X \in 1..2 : \A Y \in 1..2 : tiles_mask[X][Y] <=> (X = 2 /\ Y = 2)
           /\ Smooth(ret, Limit(lambda_angstrom, call.threshold))

\* C8 (amended): for such a map no tile other than (1,1) is marked true, and
\* tile (1,1) is marked true exactly when the returned map still has an adjacent
\* difference above the limit, which then lies inside tile (1,1).
C8_ScenarioMaskOrSmooth ==
    C8_Case
        => /\ \A X \in 1..2 : \A Y \in 1..2 : tiles_mask[X][Y] => (X = 2 /\ Y = 2)
           /\ tiles_mask[2][2] <=> ~Smooth(ret, Limit(lambda_angstrom, call.threshold))
           /\ tiles_mask[2][2]
                 => ~Smooth(TileOf(ret, 1, 1, ScenarioTile),
                            Limit(lambda_angstrom, call.threshold))

C8_Witness ==
    /\ C8_Case
    /\ call.threshold = <<4, 5>>
    /\ tiles_mask[2][2]
    /\ ~Smooth(ret, Limit(lambda_angstrom, call.threshold))
    /\ call.height_map[2 * ScenarioTile][2 * ScenarioTile]
          = call.height_map[2 * ScenarioTile][2 * ScenarioTile - 1] + 1

\* C9: with every entry of the tile mask true and the mask grid covering the
\* whole map, special_unwrap returns every pixel with its input value, whatever
\* jumps the map contains.
C9_AllMaskedIsIdentity ==
    (/\ call.op = "special_unwrap"
     /\ \A X \in 1..Rows(call.tiles_mask) : \A Y \in 1..Cols(call.tiles_mask) :
            call.tiles_mask[X][Y]
     /\ Rows(call.tiles_mask) * call.delimeter >= Cols(call.p)
     /\ Cols(call.tiles_mask) * call.delimeter >= Rows(call.p))
        => ret = call.p /\ img = call.p

C9_Witness ==
    /\ call.op = "special_unwrap"
    /\ Rows(call.p) = 2 /\ Cols(call.p) = 2
    /\ Rows(call.tiles_mask) = 2 /\ Cols(call.tiles_mask) = 2 /\ call.delimeter = 1
    /\ \A X \in 1..2 : \A Y \in 1..2 : call.tiles_mask[X][Y]
    /\ ~Smooth(call.p, Limit(lambda_angstrom, call.threshold))
    /\ ret = call.p

\* z[r][c] = z[1][1] + (c - 1) * (z[1][2] - z[1][1]) + (r - 1) * (z[2][1] - z[1][1]),
\* in rationals with cross-multiplied denominators
IsPlane(z) ==
    /\ Rows(z) >= 2 /\ Cols(z) >= 2
    /\ \A r \in 1..Rows(z) : \A c \in 1..Cols(z) :
          \A o \in {z[1][1]} : \A dx \in {z[1][2]} : \A dy \in {z[2][1]} :
             z[r][c][1] * o[2] * dx[2] * dy[2]
                = z[r][c][2] * ( o[1] * dx[2] * dy[2]
                                 + (c - 1) * (dx[1] * o[2] - o[1] * dx[2]) * dy[2]
                                 + (r - 1) * (dy[1] * o[2] - o[1] * dy[2]) * dx[2] )

\* C10: remove_linear_trend returns the all-zero map for every exact tilted plane
\* z = a*x + b*y + c with at least 2 rows and 2 columns.
C10_PlaneRemoved ==
    (call.op = "remove_linear_trend" /\ IsPlane(call.phase_data))
        => \A r \in 1..Rows(ret) : \A c \in 1..Cols(ret) : ret[r][c][1] = 0

C10_Witness ==
    /\ call.op = "remove_linear_trend"
    /\ call.phase_data = PlaneMap(3, 4, 2, -1, 1, 2)
    /\ IsPlane(call.phase_data)
    /\ Rows(ret) = 3 /\ Cols(ret) = 4
    /\ \A r \in 1..3 : \A c \in 1..4 : ret[r][c] = <<0, 1>>

\* z[r][c] = c0 + a * x^2 + b * y^2 with c0 = z[1][1], a = z[1][2] - c0 and
\* b = z[2][1] - c0, x the column and y the row index from 0
IsParaboloid(z) ==
    /\ Rows(z) >= 3 /\ Cols(z) >= 3
    /\ \A c0 \in {z[1][1]} : \A a \in {RSub(z[1][2], z[1][1])} : \A b \in {RSub(z[2][1], z[1][1])} :
          \A r \in 1..Rows(z) : \A c \in 1..Cols(z) :
             z[r][c] = RAdd(c0, RAdd(RMul(a, RInt((c - 1) * (c - 1))),
                                     RMul(b, RInt((r - 1) * (r - 1)))))

AllZero(z) == \A r \in 1..Rows(z) : \A c \in 1..Cols(z) : z[r][c] = <<0, 1>>

\* C11 (as stated): remove_polynomial_trend returns the all-zero map for every
\* exact paraboloid z = a*x^2 + b*y^2 + c with at least 3 rows and 3 columns, also
\* when c is not 0.
C11_ParaboloidRemoved ==
    (call.op = "remove_polynomial_trend" /\ IsParaboloid(call.phase_data))
        => exc = "none" /\ AllZero(ret)

\* C12: remove_linear_trend applied to a map it returned returns that map again,
\* for every map it returns one for.
C12_LinearIdempotent ==
    (call.op = "remove_linear_trend" /\ exc = "none")
        => remove_linear_trend(ret, call.lapack_raises) = [exc |-> "none", ret |-> ret]

C12_Witness ==
    /\ call.op = "remove_linear_trend" /\ exc = "none"
    /\ Rows(call.phase_data) = 3 /\ Cols(call.phase_data) = 3
    /\ ~IsPlane(call.phase_data)
    /\ ret # call.phase_data
    /\ ~AllZero(ret)
    /\ ret[1][1] # <<0, 1>>

\* C13 (as stated): remove_polynomial_trend applied to a map it returned returns
\* that map again, for every map.
C13_PolynomialIdempotent ==
    call.op = "remove_polynomial_trend"
        => remove_polynomial_trend(ret, call.lapack_raises) = [exc |-> "none", ret |-> ret]

\* C14: compute_phase raises for every steps outside {3, 4, 5}, whatever frames
\* it is handed, and returns no phase map then.
C14_UnsupportedStepsRaise ==
    (call.op = "compute_phase" /\ call.steps \notin {3, 4, 5})
        => exc # "none" /\ ret = <<>>

C14_Witness ==
    /\ call.op = "compute_phase" /\ call.steps = 6
    /\ Len(call.images) = 5
    /\ \A i \in 1..5 : Cols(call.images[i]) = 2
    /\ call.images[1] # call.images[2]
    /\ exc = "ValueError"

\* every pixel has the same value in every frame of the list
AllFramesEqual(images) == \A i, j \in 1..Len(images) : images[i] = images[j]

\* C15: for steps in {3, 4, 5} and equal frames, numerator and denominator are
\* zero at every pixel, no exception is raised and the phase is 0 at every pixel.
C15_EqualFramesGiveZero ==
    (/\ call.op = "compute_phase" /\ call.steps \in {3, 4, 5}
     /\ Len(call.images) >= call.steps /\ AllFramesEqual(call.images))
        => /\ exc = "none"
           /\ Rows(ret) = Rows(call.images[1]) /\ Cols(ret) = Cols(call.images[1])
           /\ \A r \in 1..Rows(ret) : \A c \in 1..Cols(ret) :
                 /\ numerator_of(call.images, call.steps, r, c) = <<0, 0>>
                 /\ denominator_of(call.images, call.steps, r, c) = <<0, 0>>
                 /\ ret[r][c] = <<0, 1>>

C15_Witness ==
    /\ call.op = "compute_phase" /\ call.steps = 5
    /\ Len(call.images) = 5 /\ AllFramesEqual(call.images)
    /\ call.images[1] = << <<1, 2>> >>
    /\ exc = "none"
    /\ ret = << << <<0, 1>>, <<0, 1>> >> >>

\* a call of a trend removal on a map with pixels
TrendCall ==
    /\ call.op \in {"remove_linear_trend", "remove_polynomial_trend"}
    /\ Rows(call.phase_data) * Cols(call.phase_data) > 0

NoNaN(z) == \A r \in 1..Rows(z) : \A c \in 1..Cols(z) : z[r][c][2] # 0

\* C17 (as stated): in both variants a fit that fails (the profile of a map of
\* one column or one row has a single sample, which determines no line and no
\* parabola) is replaced by a zero trend and no error reaches the caller: the
\* call returns a map of numbers, and a map of 1 row and 1 column as it came.
C17_FailedFitRecovered ==
    (TrendCall /\ (Rows(call.phase_data) = 1 \/ Cols(call.phase_data) = 1))
        => /\ exc = "none"
           /\ Rows(ret) = Rows(call.phase_data) /\ Cols(ret) = Cols(call.phase_data)
           /\ NoNaN(ret)
           /\ (Rows(call.phase_data) = 1 /\ Cols(call.phase_data) = 1)
                 => ret = call.phase_data

\* first row and first column of z hold one value, which is not 0
ConstantProfiles(z) ==
    /\ Rows(z) >= 2 /\ Cols(z) >= 2
    /\ z[1][1][1] # 0
    /\ \A c \in 1..Cols(z) : z[1][c] = z[1][1]
    /\ \A r \in 1..Rows(z) : z[r][1] = z[1][1]

\* C18 (as stated): for a map whose first row and first column are constant
\* profiles of a non-zero value, either variant fits the zero trend and returns
\* the map as it came.
C18_ConstantProfileZeroTrend ==
    (TrendCall /\ ConstantProfiles(call.phase_data))
        => exc = "none" /\ ret = call.phase_data

\* the pixels of tile (Y_idx, X_idx) in the array a, all v
TileHolds(a, Y_idx, X_idx, d, v) ==
    \A r \in TileRows(a, Y_idx, d) : \A c \in TileCols(a, X_idx, d) : a[r][c] = v

\* C19: with the tiles of tile_unwrap's loop taken in any order, every tile done
\* holds in b the 1-iteration unwrap of its own input pixels and in the mask the
\* jump test of that unwrap, whatever other tiles are done; no pixel is written
\* by two tiles; a tile still to do has left b and the mask untouched; and when
\* all tiles are done b and the mask are those of the row-major loop.
C19_TileOrderIrrelevant ==
    call.op = "tile_loop"
        => /\ \A r \in 1..Rows(writes) : \A c \in 1..Cols(writes) : writes[r][c] <= 1
           /\ \A X \in 1..Rows(tiles_mask) : \A Y \in 1..Cols(tiles_mask) :
                 IF <<Y - 1, X - 1>> \in todo
                 THEN /\ ~tiles_mask[X][Y]
                      /\ TileHolds(ret, Y - 1, X - 1, call.delimeter, 0)
                      /\ TileHolds(writes, Y - 1, X - 1, call.delimeter, 0)
                 ELSE \A u \in {UnwrappedTile(X - 1, Y - 1)} :
                      /\ tiles_mask[X][Y] = ~Smooth(u, Limit(lambda_angstrom, call.threshold))
                      /\ TileOf(ret, X - 1, Y - 1, call.delimeter) = u
                      /\ TileHolds(writes, Y - 1, X - 1, call.delimeter, 1)
           /\ todo = {}
                 => \A st \in {tile_pass(lambda_angstrom, call.height_map, call.delimeter,
                                         call.threshold, call.horizontal, call.vertical)} :
                       ret = st.b /\ tiles_mask = st.tiles_mask

\* tile (1, 1) was done first and holds a jump, tile (0, 0) last
C19_Witness ==
    /\ call.op = "tile_loop"
    /\ todo = {<<0, 0>>}
    /\ tiles_mask[2][2]
    /\ ~Smooth(TileOf(ret, 1, 1, call.delimeter), Limit(lambda_angstrom, call.threshold))
    /\ TileOf(ret, 1, 1, call.delimeter) # TileOf(call.height_map, 1, 1, call.delimeter)
    /\ TileOf(call.height_map, 0, 0, call.delimeter) # np_zeros(call.delimeter, call.delimeter)

\* the array a call was handed, as the call record holds it
Argument ==
    IF call.op \in {"threshold_unwrap", "tile_unwrap"} THEN call.height_map
    ELSE IF call.op = "phase_jump" THEN call.tile
    ELSE IF call.op = "special_unwrap" THEN call.p
    ELSE call.phase_data

\* C16: a stage handed an array of size 0 raises nothing and returns an array
\* equal to the one it was handed (phase_jump, which returns a boolean, reports
\* no jump); threshold_unwrap returns a map of 1 row and 1 column unchanged.
C16_DegenerateIsNoOp ==
    /\ (call.op \in {"threshold_unwrap", "tile_unwrap", "special_unwrap",
                      "remove_linear_trend", "remove_polynomial_trend"}
         /\ Rows(Argument) * Cols(Argument) = 0)
            => exc = "none" /\ ret = Argument
    /\ (call.op = "phase_jump" /\ Rows(Argument) * Cols(Argument) = 0)
            => exc = "none" /\ ret_flag = FALSE /\ img = Argument
    /\ (call.op = "threshold_unwrap" /\ Rows(Argument) = 1 /\ Cols(Argument) = 1)
            => exc = "none" /\ ret = Argument

C16_Witness ==
    /\ call.op = "tile_unwrap" /\ call.use_special
    /\ call.height_map = << <<>>, <<>> >>
    /\ ret = << <<>>, <<>> >>
    /\ exc = "none"

\* C20: when threshold_unwrap, phase_jump, tile_unwrap, remove_linear_trend or
\* remove_polynomial_trend has returned, the caller's array holds at every pixel
\* the value it was handed with.
C20_InputNotModified ==
    /\ call.op \in {"threshold_unwrap", "tile_unwrap", "phase_jump"} => img = Argument
    /\ call.op \in {"remove_linear_trend", "remove_polynomial_trend"}
          => phase_array = Argument

C20_Witness ==
    /\ call.op = "tile_unwrap" /\ call.use_special
    /\ Rows(call.height_map) = 2 /\ Cols(call.height_map) = 2
    /\ ret # call.height_map
    /\ img = call.height_map

\* C25: with both axes enabled, one iteration of threshold_unwrap returns the
\* vertical-only pass applied to the output of the horizontal-only pass: the
\* column differences are taken from the horizontally corrected values.
C25_VerticalAfterHorizontal ==
    (call.op = "threshold_unwrap" /\ Max(1, call.iterations) = 1
        /\ call.horizontal /\ call.vertical)
        => ret = threshold_unwrap(lambda_angstrom,
                    threshold_unwrap(lambda_angstrom, call.height_map, call.threshold,
                                     1, TRUE, FALSE),
                    call.threshold, 1, FALSE, TRUE)

\* a call whose result differs from the vertical corrections of the original
\* input added to the horizontally corrected map, and from the other order
C25_Witness ==
    /\ call.op = "threshold_unwrap" /\ call.iterations = 1
    /\ call.horizontal /\ call.vertical
    /\ ret # unwrap_iteration_mut_from_input(call.height_map,
                limit_of(lambda_angstrom, call.threshold),
                correction_step_of(lambda_angstrom), TRUE, TRUE)
    /\ ret # threshold_unwrap(lambda_angstrom,
                threshold_unwrap(lambda_angstrom, call.height_map, call.threshold,
                                 1, FALSE, TRUE),
                call.threshold, 1, TRUE, FALSE)

\* the least-squares line through (0, y[1]), ..., (n - 1, y[n]), n >= 2, by the
\* centred formula: slope = 12 * sum((i - (n - 1)/2) * y[i]) / (n * (n^2 - 1)),
\* value at the mean abscissa = mean of y; the sequence of its values at 0..n-1
LeastSquaresLine(y) ==
    Bind(Len(y), LAMBDA n :
    Bind(RSum([i \in 1..n |-> RMul(<<2 * (i - 1) - (n - 1), 2>>, y[i])], n), LAMBDA Sc :
    Bind(RDiv(RMul(RInt(12), Sc), RInt(n * (n * n - 1))), LAMBDA slope :
    Bind(RDiv(RSum(y, n), RInt(n)), LAMBDA mean :
        [i \in 1..n |-> RAdd(mean, RMul(slope, <<2 * (i - 1) - (n - 1), 2>>))]))))

\* z with the line fitted to profile subtracted from every row / every column
MinusRowLine(z, profile) ==
    Bind(LeastSquaresLine(profile), LAMBDA t :
        [r \in 1..Rows(z) |-> [c \in 1..Cols(z) |-> RSub(z[r][c], t[c])]])

MinusColumnLine(z, profile) ==
    Bind(LeastSquaresLine(profile), LAMBDA t :
        [r \in 1..Rows(z) |-> [c \in 1..Cols(z) |-> RSub(z[r][c], t[r])]])

FirstColumn(z) == [r \in 1..Rows(z) |-> z[r][1]]

\* C26: remove_linear_trend returns the map with the least-squares line of the
\* original first row subtracted from every row and then the least-squares line
\* of the first column of that intermediate map subtracted from every column
\* (maps of at least 2 rows and 2 columns, where both fits are defined).
C26_ColumnFitAfterRowFit ==
    (call.op = "remove_linear_trend"
        /\ Rows(call.phase_data) >= 2 /\ Cols(call.phase_data) >= 2)
        => /\ exc = "none"
           /\ \E w \in {MinusRowLine(call.phase_data, call.phase_data[1])} :
                 ret = MinusColumnLine(w, FirstColumn(w))

\* a call where fitting the first column of the original input gives another map
C26_Witness ==
    /\ call.op = "remove_linear_trend" /\ exc = "none"
    /\ Rows(call.phase_data) = 3 /\ Cols(call.phase_data) = 3
    /\ \E w \in {MinusRowLine(call.phase_data, call.phase_data[1])} :
          /\ ret = MinusColumnLine(w, FirstColumn(w))
          /\ ret # MinusColumnLine(w, FirstColumn(call.phase_data))

\* a and b have one shape and every pixel of b is the pixel of a plus a whole
\* number of steps
WholeSteps(a, b, step) ==
    /\ Rows(b) = Rows(a) /\ Cols(b) = Cols(a)
    /\ \A r \in 1..Rows(a) : \A c \in 1..Cols(a) : (b[r][c] - a[r][c]) % step = 0

\* C28: every pixel of the map threshold_unwrap or special_unwrap returns is the
\* pixel of its input plus an integer multiple of 0.5 * lambda, and the pixel at
\* row 0, column 0 is the input's.
C28_WholeStepsOnly ==
    call.op \in {"threshold_unwrap", "special_unwrap"}
        => /\ WholeSteps(Argument, ret, lambda_angstrom \div 2)
           /\ Rows(Argument) * Cols(Argument) > 0 => ret[1][1] = Argument[1][1]

C28_Witness ==
    /\ call.op = "special_unwrap"
    /\ lambda_angstrom = 4
    /\ Rows(call.p) = 2 /\ Cols(call.p) = 2
    /\ ret[1][1] = call.p[1][1]
    /\ \E r \in 1..2 : \E c \in 1..2 : Abs(ret[r][c] - call.p[r][c]) = 2

----------------------------------------------------------------------------
(* The masked sequential scan of the specification (section 4.6), for comparison *)

\* the pixel at row r, column c (from 1) lies in a tile marked in mask; a pixel
\* whose tile has no entry is not marked
TileMarked(mask, r, c, d) ==
    /\ ((c - 1) \div d) + 1 <= Rows(mask)
    /\ ((r - 1) \div d) + 1 <= Cols(mask)
    /\ mask[((c - 1) \div d) + 1][((r - 1) \div d) + 1]

RECURSIVE MaskedScanFrom(_, _, _, _, _, _, _, _)
MaskedScanFrom(line, marked, i, lastValue, offset, limit, step, out) ==
    IF i > Len(line) THEN out
    ELSE Bind(line[i], LAMBDA v :
         Bind(IF marked[i] THEN offset
              ELSE IF Above(v - lastValue, limit) THEN offset - step
              ELSE IF Above(lastValue - v, limit) THEN offset + step
              ELSE offset, LAMBDA off :
         Bind(IF marked[i] THEN lastValue ELSE v, LAMBDA last :
         Bind(Append(out, v + off), LAMBDA out1 :
             MaskedScanFrom(line, marked, i + 1, last, off, limit, step, out1)))))

MaskedScanLine(line, marked, limit, step) ==
    IF Len(line) = 0 THEN line
    ELSE MaskedScanFrom(line, marked, 2, line[1], 0, limit, step, <<line[1]>>)

\* marked[r][c]: the pixel mask, rows x cols
MaskedScanRows(a, marked, limit, step) ==
    Bind(a, LAMBDA av :
        [r \in 1..Rows(av) |-> Bind(av[r], LAMBDA line :
            MaskedScanLine(line, marked[r], limit, step))])

MaskedScanColumns(a, marked, limit, step) ==
    Bind(a, LAMBDA av :
        IF Rows(av) = 0 \/ Cols(av) = 0 THEN av
        ELSE Bind(MaskedScanRows(Transpose(av), Transpose(marked), limit, step),
                  LAMBDA t : Transpose(t)))

RECURSIVE MaskedScanPasses(_, _, _, _, _)
MaskedScanPasses(a, n, marked, limit, step) ==
    IF n = 0 THEN a
    ELSE MaskedScanPasses(
            MaskedScanColumns(MaskedScanRows(a, marked, limit, step), marked, limit, step),
            n - 1, marked, limit, step)

MaskedSequentialScan(lam, a, mask, d, threshold) ==
    Bind([r \in 1..Rows(a) |-> [c \in 1..Cols(a) |-> TileMarked(mask, r, c, d)]],
         LAMBDA marked : MaskedScanPasses(a, 3, marked, Limit(lam, threshold), lam \div 2))

\* C23 (as stated): special_unwrap returns the map of the specification's masked
\* sequential scan (lastValue and offset updated only at pixels of unmarked
\* tiles, every pixel written as value + offset, rows then columns, 3 passes),
\* for every map and every mask.
C23_SpecialIsMaskedScan ==
    call.op = "special_unwrap"
        => ret = MaskedSequentialScan(lambda_angstrom, call.p, call.tiles_mask,
                                      call.delimeter, call.threshold)

\* C24 (as stated): after tile_unwrap, every pixel (row r, column c, from 0) of
\* the map lies in a tile with a recorded mask entry tiles_mask[c div delimeter,
\* r div delimeter], and the pixel mask special_unwrap builds from tiles_mask
\* marks the pixel exactly when that entry is true; maps that are not square or
\* whose size is not a multiple of delimeter included.
C24_MaskLookupConsistent ==
    call.op = "tile_unwrap"
        => \E mask_full \in {mask_full_of(Rows(call.height_map), Cols(call.height_map),
                                          tiles_mask, call.delimeter)} :
           \A r \in 1..Rows(call.height_map) : \A c \in 1..Cols(call.height_map) :
              \E X \in {((c - 1) \div call.delimeter) + 1},
                 Y \in {((r - 1) \div call.delimeter) + 1} :
                 /\ X <= Rows(tiles_mask) /\ Y <= Cols(tiles_mask)
                 /\ mask_full[r][c] = tiles_mask[X][Y]

----------------------------------------------------------------------------
(* special_unwrap stepped through scan by scan: pc.at is the statement the   *)
(* call stands at, pc.scans the axes of the scans it has made                *)

\* the maps of 2 rows and 2 columns, the tile masks of 2 x 2 entries
LoopMaps == MapsOf(2, 2, Vals)

LoopMasks == {mask \in Masks : Rows(mask) = 2 /\ Cols(mask) = 2}

InitSpecialLoop ==
    /\ lambda_angstrom \in Lambdas
    /\ img \in LoopMaps
    /\ phase_array = <<>>
    /\ frame_list = <<>>
    /\ call = [op |-> "none"]
    /\ ret = <<>>
    /\ ret_flag = FALSE
    /\ exc = "none"
    /\ tiles_mask = NoMask
    /\ writes = <<>>
    /\ todo = {}
    /\ pc = [at |-> "idle", scans |-> <<>>]
    /\ arduino = NewArduinoController
    /\ wire = <<>>
    /\ recorder = NewDPIRecorder

\* the call special_unwrap(img, mask, delimeter, threshold) up to the first
\* scan: range(3) is not empty, so the loop body is entered
SpecialBegin ==
    /\ call.op = "none"
    /\ \E mask \in LoopMasks, delimeter \in Delimeters, threshold \in TileThresholds :
          call' = [op |-> "special_loop", p |-> img, tiles_mask |-> mask,
                   delimeter |-> delimeter, threshold |-> threshold]
    /\ pc' = [at |-> IF 0 < SpecialPasses THEN "horizontal" ELSE "return", scans |-> <<>>]
    /\ UNCHANGED <<lambda_angstrom, img, phase_array, frame_list, ret, ret_flag, exc,
                   tiles_mask, writes, todo, arduino, wire, recorder>>

\* p after one scan of the running call along axis
scanned(axis) ==
    special_axis(img, mask_full_of(Rows(img), Cols(img), call.tiles_mask, call.delimeter),
                 limit_of(lambda_angstrom, call.threshold),
                 correction_step_of(lambda_angstrom), axis)

\* the horizontal scan of a pass
SpecialHorizontal ==
    /\ call.op = "special_loop" /\ pc.at = "horizontal"
    /\ img' = scanned(1)
    /\ pc' = [at |-> "vertical", scans |-> Append(pc.scans, 1)]
    /\ UNCHANGED <<lambda_angstrom, phase_array, frame_list, call, ret, ret_flag, exc,
                   tiles_mask, writes, todo, arduino, wire, recorder>>

\* the vertical scan of a pass and the test of the for loop that follows it
SpecialVertical ==
    /\ call.op = "special_loop" /\ pc.at = "vertical"
    /\ img' = scanned(0)
    /\ pc' = [at |-> IF (Len(pc.scans) + 1) \div 2 < SpecialPasses THEN "horizontal" ELSE "return",
              scans |-> Append(pc.scans, 0)]
    /\ UNCHANGED <<lambda_angstrom, phase_array, frame_list, call, ret, ret_flag, exc,
                   tiles_mask, writes, todo, arduino, wire, recorder>>

\* return p
SpecialReturn ==
    /\ call.op = "special_loop" /\ pc.at = "return"
    /\ ret' = img
    /\ call' = [call EXCEPT !.op = "special_unwrap"]
    /\ pc' = [pc EXCEPT !.at = "idle"]
    /\ UNCHANGED <<lambda_angstrom, img, phase_array, frame_list, ret_flag, exc,
                   tiles_mask, writes, todo, arduino, wire, recorder>>

SpecialRuns == SpecialHorizontal \/ SpecialVertical \/ SpecialReturn

NextSpecialLoop == SpecialBegin \/ SpecialRuns

\* the call runs in its caller's thread and waits for nothing: a call that has
\* begun takes its next step
SpecSpecialLoop == InitSpecialLoop /\ [][NextSpecialLoop]_vars /\ WF_vars(SpecialRuns)

\* C27: special_unwrap raises nothing; every call that has begun returns, and it
\* returns after exactly three passes, each one horizontal scan followed by one
\* vertical scan, with the map the three passes leave, whatever the map and the
\* mask (it neither stops early nor goes on until nothing changes).
C27_ThreePassesThenReturn ==
    /\ [](exc = "none")
    /\ [](call.op = "special_unwrap"
            => /\ pc.scans = <<1, 0, 1, 0, 1, 0>>
               /\ ret = special_unwrap(lambda_angstrom, call.p, call.tiles_mask,
                                       call.delimeter, call.threshold))
    /\ (call.op = "special_loop") ~> (call.op = "special_unwrap")

\* a call that has returned after its six scans although its first pass had
\* already left the map it returned
C27_Witness ==
    /\ call.op = "special_unwrap" /\ pc.at = "idle"
    /\ Len(pc.scans) = 6
    /\ ret # call.p
    /\ ret = special_loop(call.p, 1,
                mask_full_of(Rows(call.p), Cols(call.p), call.tiles_mask, call.delimeter),
                limit_of(lambda_angstrom, call.threshold), correction_step_of(lambda_angstrom))

----------------------------------------------------------------------------
(* ArduinoController (src/hardware/controller.py).  wire holds, in order, what *)
(* was written to the open port: the text commands of self.ser.write in       *)
(* serial mode (the writes list of the tests' DummySerial), the operations on *)
(* self.board.digital in firmata mode.  A write to the port returns; positive *)
(* durations only, so time.sleep returns.                                     *)

\* the names src/config.py defines
config ==
    [DEFAULT_STEPS |-> 3, DEFAULT_LAMBDA |-> 750, DEFAULT_THRESHOLD |-> <<4, 5>>,
     DEFAULT_DELAY |-> 300, DEFAULT_CAMERA_RESOLUTION |-> <<640, 480>>,
     DEFAULT_CAMERA_FPS |-> 30, DEFAULT_ARDUINO_BAUDRATE |-> 57600,
     ARDUINO_PINS |-> [i \in 1..9 |-> i + 1],
     DEFAULT_DELIMITER |-> 10, MAX_TILES_SIZE |-> <<1000, 1000>>,
     DPI_IMAGE_FORMAT |-> "PNG", DPI_CSV_FORMAT |-> "CSV",
     INTERFEROGRAM_METHODS |-> <<"average", "first", "last">>,
     DEFAULT_INTERFEROGRAM_METHOD |-> "average",
     COLORMAP_FILE |-> "data/colorArray.csv", SETTINGS_FILE |-> "data/settings.txt",
     VALUES_FILE |-> "data/values.txt", COLORMAP_SIZE |-> 1280,
     GUI_WINDOW_SIZE |-> <<800, 600>>, CONTROLS_PANEL_WIDTH |-> 300]

\* getattr(module, name, default)
getattr(module, name, default) ==
    IF name \in DOMAIN module THEN module[name] ELSE default

\* f"PINMODE:{pin}:OUTPUT\n" and f"DIGITAL:{pin}:{level}\n"
pinmode_command(pin) == "PINMODE:" \o ToString(pin) \o ":OUTPUT\n"
digital_command(pin, level) == "DIGITAL:" \o ToString(pin) \o ":" \o level \o "\n"

\* self.board.digital[pin].mode = pyfirmata.OUTPUT and self.board.digital[pin].write(value)
firmata_mode(pin) == "digital[" \o ToString(pin) \o "].mode = OUTPUT"
firmata_write(pin, value) == "digital[" \o ToString(pin) \o "].write(" \o ToString(value) \o ")"

\* what _initialize_pins writes in the mode given
initialize_pins(mode) ==
    Bind(config.ARDUINO_PINS, LAMBDA pins :
        IF mode = "firmata"
        THEN [i \in 1..(2 * Len(pins)) |->
                 IF i % 2 = 1 THEN firmata_mode(pins[(i + 1) \div 2])
                 ELSE firmata_write(pins[i \div 2], 0)] \o <<firmata_write(8, 1)>>
        ELSE IF mode = "serial"
        THEN [i \in 1..(2 * Len(pins)) |->
                 IF i % 2 = 1 THEN pinmode_command(pins[(i + 1) \div 2])
                 ELSE digital_command(pins[i \div 2], "LOW")] \o <<digital_command(8, "HIGH")>>
        ELSE <<>>)

send_step_command_mut_high_first(a, step_index) ==
    IF ~a.is_connected THEN [writes |-> <<>>, current_step |-> a.current_step]
    ELSE
    Bind(step_index + 2, LAMBDA target_pin :
        IF a.mode = "serial"
        THEN [writes |-> (IF 2 <= target_pin /\ target_pin <= 10
                          THEN <<digital_command(target_pin, "HIGH")>> ELSE <<>>)
                         \o [i \in 1..9 |-> digital_command(i + 1, "LOW")],
              current_step |-> IF 2 <= target_pin /\ target_pin <= 10
                               THEN step_index ELSE a.current_step]
        ELSE [writes |-> (IF 2 <= target_pin /\ target_pin <= 10
                          THEN <<firmata_write(target_pin, 1)>> ELSE <<>>)
                         \o [i \in 1..9 |-> firmata_write(i + 1, 0)],
              current_step |-> IF 2 <= target_pin /\ target_pin <= 10
                               THEN step_index ELSE a.current_step])

\* send_step_command on the controller a: what it writes and the current_step
\* it leaves
send_step_command(a, step_index) ==
    IF ~a.is_connected THEN [writes |-> <<>>, current_step |-> a.current_step]
    ELSE
    Bind(step_index + 2, LAMBDA target_pin :
        IF a.mode = "firmata"
        THEN [writes |-> [i \in 1..9 |-> firmata_write(i + 1, 0)]
                         \o (IF 2 <= target_pin /\ target_pin <= 10
                             THEN <<firmata_write(target_pin, 1)>> ELSE <<>>),
              current_step |-> IF 2 <= target_pin /\ target_pin <= 10
                               THEN step_index ELSE a.current_step]
        ELSE IF a.mode = "serial"
        THEN [writes |-> [i \in 1..9 |-> digital_command(i + 1, "LOW")]
                         \o (IF 2 <= target_pin /\ target_pin <= 10
                             THEN <<digital_command(target_pin, "HIGH")>> ELSE <<>>),
              current_step |-> IF 2 <= target_pin /\ target_pin <= 10
                               THEN step_index ELSE a.current_step]
        ELSE [writes |-> <<>>, current_step |-> a.current_step])

\* what reset_all_pins writes
reset_all_pins(a) ==
    Bind(config.ARDUINO_PINS, LAMBDA pins :
        IF ~a.is_connected THEN <<>>
        ELSE IF a.mode = "firmata" THEN [i \in 1..Len(pins) |-> firmata_write(pins[i], 0)]
        ELSE IF a.mode = "serial" THEN [i \in 1..Len(pins) |-> digital_command(pins[i], "LOW")]
        ELSE <<>>)

\* the pin blink uses: pin is <<>> for pin=None, <<n>> for pin=n
blink_pin(a, pin) ==
    IF pin # <<>> THEN pin[1]
    ELSE IF a.mode = "serial" /\ a.esp THEN getattr(config, "ESP_BLINK_PIN", 2)
    ELSE getattr(config, "BLINK_PIN", 13)

blink_mut_always_writes(a, pin, duration_ms) ==
    Bind(blink_pin(a, pin), LAMBDA p :
        [writes |-> <<pinmode_command(p), digital_command(p, "LOW"),
                      digital_command(p, "HIGH"), digital_command(p, "LOW")>>,
         ret |-> a.is_connected])

\* blink on the controller a: what it writes and what it returns
blink(a, pin, duration_ms) ==
    IF ~a.is_connected THEN [writes |-> <<>>, ret |-> FALSE]
    ELSE
    Bind(blink_pin(a, pin), LAMBDA p :
        IF a.mode = "firmata"
        THEN [writes |-> <<firmata_mode(p), firmata_write(p, 1), firmata_write(p, 0)>>,
              ret |-> TRUE]
        ELSE IF a.mode = "serial"
        THEN Bind(IF a.esp THEN getattr(config, "ESP_LED_INVERTED", TRUE) ELSE FALSE,
                  LAMBDA invert :
                [writes |-> IF invert
                            THEN <<pinmode_command(p), digital_command(p, "LOW"),
                                   digital_command(p, "HIGH")>>
                            ELSE <<pinmode_command(p), digital_command(p, "HIGH"),
                                   digital_command(p, "LOW")>>,
                 ret |-> TRUE])
        ELSE [writes |-> <<>>, ret |-> FALSE])

\* a connection is used for no more than MaxCalls calls; call.n counts them
MaxCalls == 2

CallsMade == IF "n" \in DOMAIN call THEN call.n ELSE 0

StepIndexes == {-1, 0, 1, 8, 9}

\* pin=None, pin=7, pin=13
PinArguments == {<<>>, <<7>>, <<13>>}

\* duration_ms: the value of the tests and the default
Durations == {1, 300}

InitArduino ==
    /\ lambda_angstrom \in {2}
    /\ img = <<>>
    /\ phase_array = <<>>
    /\ frame_list = <<>>
    /\ call = [op |-> "none"]
    /\ ret = <<>>
    /\ ret_flag = FALSE
    /\ exc = "none"
    /\ tiles_mask = NoMask
    /\ writes = <<>>
    /\ todo = {}
    /\ pc = NoLoop
    /\ arduino = NewArduinoController
    /\ wire = <<>>
    /\ recorder = NewDPIRecorder

\* connect(port): an open connection is closed first; then Firmata is tried
\* (never on an ESP board), then plain serial, and IOError is raised when no
\* attempt succeeds.  Which attempt succeeds is the port's choice.
Connect ==
    /\ \E esp \in BOOLEAN, outcome \in {"firmata", "serial", "IOError"} :
          /\ esp => outcome # "firmata"
          /\ call' = [op |-> "connect", esp |-> esp, outcome |-> outcome, n |-> 0]
          /\ exc' = IF outcome = "IOError" THEN "IOError" ELSE "none"
          /\ arduino' = IF outcome = "IOError"
                        THEN [arduino EXCEPT !.is_connected = FALSE, !.mode = "None",
                                             !.esp = FALSE]
                        ELSE [arduino EXCEPT !.is_connected = TRUE, !.mode = outcome,
                                             !.esp = esp]
          /\ wire' = initialize_pins(IF outcome = "IOError" THEN "None" ELSE outcome)
    /\ UNCHANGED <<lambda_angstrom, img, phase_array, frame_list, ret, ret_flag,
                   tiles_mask, writes, todo, pc, recorder>>

\* the tests' set-up: is_connected, _mode and ser are assigned directly, ser a
\* DummySerial (no port attribute, so not an ESP board)
UseDummySerial ==
    /\ ~arduino.is_connected
    /\ call' = [op |-> "DummySerial", n |-> 0]
    /\ arduino' = [arduino EXCEPT !.is_connected = TRUE, !.mode = "serial", !.esp = FALSE]
    /\ wire' = <<>>
    /\ exc' = "none"
    /\ UNCHANGED <<lambda_angstrom, img, phase_array, frame_list, ret, ret_flag,
                   tiles_mask, writes, todo, pc, recorder>>

Disconnect ==
    /\ arduino.is_connected
    /\ call' = [op |-> "disconnect", n |-> 0]
    /\ arduino' = [arduino EXCEPT !.is_connected = FALSE, !.mode = "None", !.esp = FALSE]
    /\ wire' = <<>>
    /\ exc' = "none"
    /\ UNCHANGED <<lambda_angstrom, img, phase_array, frame_list, ret, ret_flag,
                   tiles_mask, writes, todo, pc, recorder>>

SendStepCommand ==
    /\ CallsMade < MaxCalls
    /\ \E step_index \in StepIndexes :
       \E st \in {send_step_command(arduino, step_index)} :
          /\ call' = [op |-> "send_step_command", step_index |-> step_index,
                      n |-> CallsMade + 1, before |-> Len(wire),
                      current_step |-> arduino.current_step]
          /\ wire' = wire \o st.writes
          /\ arduino' = [arduino EXCEPT !.current_step = st.current_step]
    /\ exc' = "none"
    /\ UNCHANGED <<lambda_angstrom, img, phase_array, frame_list, ret, ret_flag,
                   tiles_mask, writes, todo, pc, recorder>>

ResetAllPins ==
    /\ CallsMade < MaxCalls
    /\ call' = [op |-> "reset_all_pins", n |-> CallsMade + 1, before |-> Len(wire)]
    /\ wire' = wire \o reset_all_pins(arduino)
    /\ exc' = "none"
    /\ UNCHANGED <<lambda_angstrom, img, phase_array, frame_list, ret, ret_flag,
                   tiles_mask, writes, todo, pc, arduino, recorder>>

Blink ==
    /\ CallsMade < MaxCalls
    /\ \E pin \in PinArguments, duration_ms \in Durations :
       \E st \in {blink(arduino, pin, duration_ms)} :
          /\ call' = [op |-> "blink", pin |-> pin, duration_ms |-> duration_ms,
                      n |-> CallsMade + 1, before |-> Len(wire)]
          /\ wire' = wire \o st.writes
          /\ ret_flag' = st.ret
    /\ exc' = "none"
    /\ UNCHANGED <<lambda_angstrom, img, phase_array, frame_list, ret,
                   tiles_mask, writes, todo, pc, arduino, recorder>>

NextArduino ==
    \/ Connect
    \/ UseDummySerial
    \/ Disconnect
    \/ SendStepCommand
    \/ ResetAllPins
    \/ Blink

SpecArduino == InitArduino /\ [][NextArduino]_vars

\* what the last call wrote to the port
Written == SubSeq(wire, call.before + 1, Len(wire))

SerialNotEsp == arduino.is_connected /\ arduino.mode = "serial" /\ ~arduino.esp

C22_DefaultPinIsConfigured ==
    (call.op = "blink" /\ call.pin = <<>> /\ SerialNotEsp)
        => /\ "BLINK_PIN" \in DOMAIN config
           /\ Written = << "PINMODE:" \o ToString(config.BLINK_PIN) \o ":OUTPUT\n",
                           "DIGITAL:" \o ToString(config.BLINK_PIN) \o ":HIGH\n",
                           "DIGITAL:" \o ToString(config.BLINK_PIN) \o ":LOW\n" >>

\* driving pin to level (0 LOW, 1 HIGH) in the mode of the connection
Drive(pin, level) ==
    IF arduino.mode = "serial"
    THEN "DIGITAL:" \o ToString(pin) \o (IF level = 1 THEN ":HIGH\n" ELSE ":LOW\n")
    ELSE "digital[" \o ToString(pin) \o "].write(" \o ToString(level) \o ")"

\* the level pin was last driven to in the first n writes, -1 if it was not driven
RECURSIVE LastLevel(_, _)
LastLevel(pin, n) ==
    IF n = 0 THEN -1
    ELSE IF wire[n] = Drive(pin, 1) THEN 1
    ELSE IF wire[n] = Drive(pin, 0) THEN 0
    ELSE LastLevel(pin, n - 1)

HighPins == {pin \in 2..10 : LastLevel(pin, Len(wire)) = 1}

\* C30: send_step_command on a connected controller drives the pins 2..10 LOW,
\* in this order, and only then the target pin step_index + 2 HIGH, so that
\* after the call the target pin is the one pin of 2..10 that is HIGH and
\* current_step is step_index; when the target pin is outside 2..10 all pins
\* are left LOW and current_step is as before; when not connected nothing is
\* written.
C30_OnePinHigh ==
    call.op = "send_step_command"
        => IF arduino.is_connected
           THEN \E target_pin \in {call.step_index + 2} :
                IF target_pin \in 2..10
                THEN /\ Written = [i \in 1..9 |-> Drive(i + 1, 0)] \o <<Drive(target_pin, 1)>>
                     /\ HighPins = {target_pin}
                     /\ arduino.current_step = call.step_index
                ELSE /\ Written = [i \in 1..9 |-> Drive(i + 1, 0)]
                     /\ HighPins = {}
                     /\ arduino.current_step = call.current_step
           ELSE /\ Written = <<>> /\ wire = <<>>
                /\ arduino.current_step = call.current_step

\* the second step command on a connection, for another pin than the first
C30_Witness ==
    /\ call.op = "send_step_command" /\ call.n = 2
    /\ arduino.is_connected /\ arduino.mode = "serial"
    /\ call.current_step = 1 /\ call.step_index = 0
    /\ LastLevel(3, call.before) = 1
    /\ HighPins = {2}
    /\ arduino.current_step = 0

----------------------------------------------------------------------------
(* DPIRecorder (src/core/dpi_recorder.py): the GUI thread calls               *)
(* start_recording, save_phase_data, mark_experiment_end and stop_recording,  *)
(* the writer thread runs _writer_loop.  pc.at is the statement the writer    *)
(* thread stands at, pc.phase_data and pc.num its locals, pc.client whether   *)
(* the GUI thread waits in the join of stop_recording.  A phase map is the    *)
(* number of its acceptance, an output directory the number of its session;   *)
(* a file is the directory, the number in its name test<num>.csv and the map  *)
(* saved.                                                                     *)

\* no more than MaxMaps maps are accepted and MaxSessions recordings started
MaxMaps == 3

MaxSessions == 2

InitRecorder ==
    /\ lambda_angstrom \in {2}
    /\ img = <<>>
    /\ phase_array = <<>>
    /\ frame_list = <<>>
    /\ call = [op |-> "none"]
    /\ ret = <<>>
    /\ ret_flag = FALSE
    /\ exc = "none"
    /\ tiles_mask = NoMask
    /\ writes = <<>>
    /\ todo = {}
    /\ pc = [at |-> "idle", client |-> "idle", phase_data |-> 0, num |-> 0]
    /\ arduino = NewArduinoController
    /\ wire = <<>>
    /\ recorder = NewDPIRecorder

\* what the engine and the controller hold
others == <<lambda_angstrom, img, phase_array, frame_list, ret, ret_flag, exc,
            tiles_mask, writes, todo, arduino, wire>>

\* start_recording(output_directory) when no recording runs: the fields are
\* reset, what is left on the queue is thrown away, the stop event is cleared,
\* and a writer thread is started unless one is alive
StartRecording ==
    /\ pc.client = "idle"
    /\ ~recorder.is_recording
    /\ recorder.output_directory < MaxSessions
    /\ call' = [op |-> "start_recording"]
    /\ recorder' = [recorder EXCEPT !.output_directory = @ + 1,
                                    !.is_recording = TRUE,
                                    !.image_count = 0,
                                    !.queue = <<>>,
                                    !.stop_event = FALSE,
                                    !.experiment_finished = FALSE,
                                    !.writer = "alive"]
    /\ pc' = IF recorder.writer = "alive" THEN pc ELSE [pc EXCEPT !.at = "while"]
    /\ UNCHANGED others

\* save_phase_data(phase_data) while recording: put_nowait on the unbounded queue
SavePhaseData ==
    /\ pc.client = "idle"
    /\ recorder.is_recording
    /\ Len(recorder.accepted) < MaxMaps
    /\ \E phase_data \in {Len(recorder.accepted) + 1} :
          /\ call' = [op |-> "save_phase_data", phase_data |-> phase_data]
          /\ recorder' = [recorder EXCEPT
                !.queue = Append(@, phase_data),
                !.accepted = Append(@, [dir |-> recorder.output_directory,
                                        data |-> phase_data])]
    /\ UNCHANGED <<others, pc>>

\* mark_experiment_end, which the GUI calls while recording
MarkExperimentEnd ==
    /\ pc.client = "idle"
    /\ recorder.is_recording /\ ~recorder.experiment_finished
    /\ call' = [op |-> "mark_experiment_end"]
    /\ recorder' = [recorder EXCEPT !.experiment_finished = TRUE]
    /\ UNCHANGED <<others, pc>>

\* stop_recording up to the join: is_recording = False, the stop event is set
StopRecording ==
    /\ pc.client = "idle"
    /\ recorder.is_recording
    /\ call' = [op |-> "stop_recording"]
    /\ recorder' = [recorder EXCEPT !.is_recording = FALSE, !.stop_event = TRUE]
    /\ pc' = [pc EXCEPT !.client = "join"]
    /\ UNCHANGED others

\* t.join(timeout=10) returns, because the writer thread has ended or because
\* the 10 seconds have passed; then create_values_file writes image_count
JoinReturns ==
    /\ pc.client = "join"
    /\ \E timed_out \in BOOLEAN :
          /\ ~timed_out => recorder.writer = "dead"
          /\ timed_out => recorder.writer = "alive"
          /\ call' = [op |-> "stop_recording", timed_out |-> timed_out]
    /\ recorder' = [recorder EXCEPT !.values = recorder.image_count]
    /\ pc' = [pc EXCEPT !.client = "idle"]
    /\ UNCHANGED others

\* while not self._stop_event.is_set() or ...: the first operand
WriterTestsStop ==
    /\ pc.at = "while"
    /\ pc' = [pc EXCEPT !.at = IF ~recorder.stop_event THEN "get" ELSE "empty"]
    /\ UNCHANGED <<others, call, recorder>>

\* ... or not self._queue.empty(): the second operand
WriterTestsEmpty ==
    /\ pc.at = "empty"
    /\ pc' = [pc EXCEPT !.at = IF recorder.queue # <<>> THEN "get" ELSE "exit"]
    /\ UNCHANGED <<others, call, recorder>>

\* phase_data = self._queue.get(timeout=0.5): the head of the queue, or
\* queue.Empty after the timeout and continue
WriterGets ==
    /\ pc.at = "get"
    /\ IF recorder.queue # <<>>
       THEN /\ pc' = [pc EXCEPT !.at = "save", !.phase_data = Head(recorder.queue)]
            /\ recorder' = [recorder EXCEPT !.queue = Tail(@)]
       ELSE /\ pc' = [pc EXCEPT !.at = "while"]
            /\ UNCHANGED recorder
    /\ UNCHANGED <<others, call>>

\* num = self.image_count + 1 and the file test<num>.csv is written in
\* self.output_directory
WriterSaves ==
    /\ pc.at = "save"
    /\ \E num \in {recorder.image_count + 1} :
          /\ pc' = [pc EXCEPT !.at = "count", !.num = num]
          /\ recorder' = [recorder EXCEPT
                !.files = Append(@, [dir |-> recorder.output_directory, num |-> num,
                                     data |-> pc.phase_data])]
    /\ UNCHANGED <<others, call>>

\* self.image_count = num
WriterCounts ==
    /\ pc.at = "count"
    /\ recorder' = [recorder EXCEPT !.image_count = pc.num]
    /\ pc' = [pc EXCEPT !.at = "finish"]
    /\ UNCHANGED <<others, call>>

\* the end of the loop body: values.txt is written when the experiment was
\* marked finished and the queue is empty
WriterFinishes ==
    /\ pc.at = "finish"
    /\ recorder' = IF recorder.experiment_finished /\ recorder.queue = <<>>
                   THEN [recorder EXCEPT !.values = recorder.image_count,
                                         !.experiment_finished = FALSE]
                   ELSE recorder
    /\ pc' = [pc EXCEPT !.at = "while", !.phase_data = 0, !.num = 0]
    /\ UNCHANGED <<others, call>>

\* _writer_loop returns and the thread ends
WriterExits ==
    /\ pc.at = "exit"
    /\ recorder' = [recorder EXCEPT !.writer = "dead"]
    /\ pc' = [pc EXCEPT !.at = "idle"]
    /\ UNCHANGED <<others, call>>

Writer ==
    \/ WriterTestsStop
    \/ WriterTestsEmpty
    \/ WriterGets
    \/ WriterSaves
    \/ WriterCounts
    \/ WriterFinishes
    \/ WriterExits

NextRecorder ==
    \/ StartRecording
    \/ SavePhaseData
    \/ MarkExperimentEnd
    \/ StopRecording
    \/ JoinReturns
    \/ Writer

\* both threads are scheduled fairly: the writer thread takes its next step,
\* and the join of stop_recording returns
SpecRecorder ==
    InitRecorder /\ [][NextRecorder]_vars /\ WF_vars(Writer) /\ WF_vars(JoinReturns)

\* the files written in directory d and the maps accepted in session d, in order
FilesOf(d) == SelectSeq(recorder.files, LAMBDA f : f.dir = d)
AcceptedOf(d) == SelectSeq(recorder.accepted, LAMBDA a : a.dir = d)

\* the files of every session are test1.csv, test2.csv, ... and hold the maps
\* accepted in that session, in the order of acceptance
FilesInOrder ==
    \A d \in 1..MaxSessions :
        /\ Len(FilesOf(d)) <= Len(AcceptedOf(d))
        /\ \A i \in 1..Len(FilesOf(d)) :
              /\ FilesOf(d)[i].num = i
              /\ FilesOf(d)[i].data = AcceptedOf(d)[i].data

\* C29 (as stated): every map accepted by save_phase_data is written by the
\* writer thread exactly once, in the order of acceptance, to the files
\* test1.csv, test2.csv, ... of its session; with both threads scheduled fairly
\* every accepted map is eventually written, and once the stop event is set
\* image_count comes to equal the number of maps accepted in the session.
C29_EveryAcceptedMapWritten ==
    /\ []FilesInOrder
    /\ \A m \in 1..MaxMaps :
          (Len(recorder.accepted) >= m)
              ~> (\E i \in 1..Len(recorder.files) : recorder.files[i].data = m)
    /\ recorder.stop_event
          ~> (recorder.image_count = Len(AcceptedOf(recorder.output_directory)))

====
